---------------------------- MODULE Spec2Model ----------------------------
(* Leads tracker: the record store (Lead table), the two spreadsheet     *)
(* importers (import_leads.py main and app.py import_leads_view) and the  *)
(* request handlers of app.py that write leads.                           *)
(*                                                                        *)
(* Python values are records [t, s, d, h]: t is the Python type, s the    *)
(* characters of a str (a sequence of one-character strings), d the day   *)
(* of January 2024 of a date-like value and h its hour.  A DataFrame is  *)
(* [cols, rows]: cols is df.columns after normalize_columns, rows the     *)
(* sequence of rows, each a function from cols to cell values.            *)
EXTENDS Integers, Sequences, FiniteSets, TLC

VARIABLES leads, last, prev, utcnow, runs

vars == <<leads, last, prev, utcnow, runs>>

----------------------------------------------------------------------------
(* Bounds of the model *)

MaxRows == 3
MaxInitLeads == 1
MaxRuns == 2
MaxLeads == 1
MaxParts == 2
MaxDay == 9

----------------------------------------------------------------------------
(* Python values *)

Val(t, s, d, h) == [t |-> t, s |-> s, d |-> d, h |-> h]

None == Val("None", <<>>, 0, 0)
NaN == Val("NaN", <<>>, 0, 0)
NaT == Val("NaT", <<>>, 0, 0)
Raised == Val("Raised", <<>>, 0, 0)
Str(s) == Val("str", s, 0, 0)
PyDate(d) == Val("date", <<>>, d, 0)
PyDatetime(d, h) == Val("datetime", <<>>, d, h)
Timestamp(d, h) == Val("Timestamp", <<>>, d, h)
PyBool == Val("bool", <<>>, 1, 0)

IsStr(v) == v.t = "str"

Whitespace == {" ", "\t", "\n"}

RECURSIVE LStrip(_)
LStrip(s) ==
    IF s # <<>> /\ Head(s) \in Whitespace THEN LStrip(Tail(s)) ELSE s

RECURSIVE RStrip(_)
RStrip(s) ==
    IF s # <<>> /\ s[Len(s)] \in Whitespace
    THEN RStrip(SubSeq(s, 1, Len(s) - 1))
    ELSE s

\* str.strip()
Strip(s) == RStrip(LStrip(s))

Upper == <<"A", "B", "C", "D", "E", "F", "G", "H", "I", "J", "K", "L", "M",
           "N", "O", "P", "Q", "R", "S", "T", "U", "V", "W", "X", "Y", "Z">>
LowerOf == <<"a", "b", "c", "d", "e", "f", "g", "h", "i", "j", "k", "l", "m",
             "n", "o", "p", "q", "r", "s", "t", "u", "v", "w", "x", "y", "z">>

LowerChar(c) ==
    LET hit == {i \in 1..Len(Upper) : Upper[i] = c}
    IN  IF hit = {} THEN c ELSE LowerOf[CHOOSE i \in hit : TRUE]

\* str.lower()
Lower(s) == [i \in 1..Len(s) |-> LowerChar(s[i])]

\* Python truthiness of the values that reach an `if v:` or `v or w`
Truthy(v) ==
    CASE v.t \in {"None"} -> FALSE
      [] v.t = "str" -> v.s # <<>>
      [] v.t = "bool" -> v.d = 1
      [] OTHER -> TRUE

----------------------------------------------------------------------------
(* import_leads.py: cell normalisation *)

\* pandas.isna on a scalar
pd_isna(v) == v.t \in {"None", "NaN", "NaT"}

is_empty(v) ==
    IF pd_isna(v) THEN TRUE
    ELSE IF v.t = "None" THEN TRUE
    ELSE IF IsStr(v) /\ Strip(v.s) = <<>> THEN TRUE
    ELSE FALSE

coerce_text(v) ==
    IF is_empty(v) THEN None
    ELSE LET s == Strip(v.s)
         IN  IF s # <<>> THEN Str(s) ELSE None

\* The date strings of the model and what pandas.to_datetime(v,
\* errors="coerce") gives for them
sIso1 == <<"2", "0", "2", "4", "-", "0", "1", "-", "0", "2">>
sIso2 == <<"2", "0", "2", "4", "-", "0", "1", "-", "0", "3", " ", "0", "9", ":", "0", "0">>
sBad == <<"1", "3", "/", "2", "0", "2", "4">>

pd_to_datetime(v) ==
    CASE v.t = "bool" -> Raised
      [] v.t = "str" /\ v.s = sIso1 -> Timestamp(2, 0)
      [] v.t = "str" /\ v.s = sIso2 -> Timestamp(3, 9)
      [] v.t \in {"Timestamp", "datetime"} -> Timestamp(v.d, v.h)
      [] v.t = "date" -> Timestamp(v.d, 0)
      [] OTHER -> NaT

\* Timestamp.date() / datetime.date()
DateOf(v) == PyDate(v.d)

\* parse_date_safe without the pd.isna(ts) test
parse_date_safe_noisna(v) ==
    IF is_empty(v) THEN None
    ELSE IF v.t = "Timestamp" THEN DateOf(v)
    ELSE IF v.t = "datetime" THEN DateOf(v)
    ELSE IF v.t = "date" THEN v
    ELSE LET ts == pd_to_datetime(v)
         IN  IF ts = Raised THEN None
             ELSE IF ts.t = "Timestamp" THEN DateOf(ts)
             ELSE ts

parse_date_safe(v) ==
    IF is_empty(v) THEN None
    ELSE IF v.t = "Timestamp" THEN DateOf(v)
    ELSE IF v.t = "datetime" THEN DateOf(v)
    ELSE IF v.t = "date" THEN v
    ELSE LET ts == pd_to_datetime(v)
         IN  IF ts = Raised THEN None
             ELSE IF pd_isna(ts) THEN None
             ELSE IF ts.t = "Timestamp" THEN DateOf(ts)
             ELSE IF ts.t = "datetime" THEN DateOf(ts)
             ELSE IF ts.t = "date" THEN ts
             ELSE None


----------------------------------------------------------------------------
(* import_leads.py: column mapping *)

TextFields == {"rep", "source", "company", "address", "city", "notes",
               "contact_name", "contact_email", "phone", "industry",
               "fleet_size"}

KwFields == TextFields \cup {"lead_date"}

\* The ordered alias columns of each text field
Aliases(f) ==
    CASE f = "rep" -> <<"territory/ sales rep", "territory", "sales rep", "rep">>
      [] f = "source" -> <<"source">>
      [] f = "company" -> <<"company">>
      [] f = "address" -> <<"address">>
      [] f = "city" -> <<"city">>
      [] f = "notes" -> <<"notes", "comments", "details", "remarks">>
      [] f = "contact_name" -> <<"contact", "contact name", "name", "primary contact">>
      [] f = "contact_email" -> <<"email", "contact email", "e-mail">>
      [] f = "phone" -> <<"phone", "phone number", "tel">>
      [] f = "industry" -> <<"industry", "segment", "sic", "naics">>
      [] f = "fleet_size" -> <<"fleet size", "trucks", "forklifts", "units">>

Min(S) == CHOOSE x \in S : \A y \in S : x <= y

\* row_to_kwargs.pick_text: the first alias that is a column of the frame
pick_text(row, names) ==
    LET present == {i \in 1..Len(names) : names[i] \in DOMAIN row}
    IN  IF present = {} THEN None ELSE coerce_text(row[names[Min(present)]])

row_to_kwargs(row) ==
    [f \in KwFields |->
        IF f = "lead_date"
        THEN IF "date" \in DOMAIN row THEN parse_date_safe(row["date"]) ELSE None
        ELSE pick_text(row, Aliases(f))]

scrub_kwargs(kwargs) ==
    [k \in DOMAIN kwargs |->
        IF k = "lead_date" THEN parse_date_safe(kwargs[k])
        ELSE IF is_empty(kwargs[k]) THEN None
        ELSE kwargs[k]]

----------------------------------------------------------------------------
(* app.py: the Lead model *)

\* Lead(**kwargs) with a column default that files the lead under new
Lead_staged(kwargs, id, now) ==
    [id |-> id, created_at |-> now,
     company |-> kwargs.company, contact_name |-> kwargs.contact_name,
     contact_email |-> kwargs.contact_email, phone |-> kwargs.phone,
     industry |-> kwargs.industry, fleet_size |-> kwargs.fleet_size,
     notes |-> kwargs.notes, lead_date |-> kwargs.lead_date,
     rep |-> kwargs.rep, source |-> kwargs.source,
     address |-> kwargs.address, city |-> kwargs.city,
     quality |-> None, stage |-> Str(<<"n", "e", "w">>)]

\* Lead(**kwargs) once flushed: id is the next primary key, created_at the
\* column default datetime.utcnow, quality and stage stay NULL
Lead(kwargs, id, now) ==
    [id |-> id, created_at |-> now,
     company |-> kwargs.company, contact_name |-> kwargs.contact_name,
     contact_email |-> kwargs.contact_email, phone |-> kwargs.phone,
     industry |-> kwargs.industry, fleet_size |-> kwargs.fleet_size,
     notes |-> kwargs.notes, lead_date |-> kwargs.lead_date,
     rep |-> kwargs.rep, source |-> kwargs.source,
     address |-> kwargs.address, city |-> kwargs.city,
     quality |-> None, stage |-> None]

NoKwargs == [f \in KwFields |-> None]

----------------------------------------------------------------------------
(* import_leads.py main: the row loop *)

\* main_candidates without the filter on contact_email
main_candidates_company(ls, company, email) ==
    {i \in 1..Len(ls) : Truthy(company) => ls[i].company = company}

\* Ids of the rows of Lead.query after the filters of the row
main_candidates(ls, company, email) ==
    {i \in 1..Len(ls) :
        /\ Truthy(company) => ls[i].company = company
        /\ Truthy(email) => ls[i].contact_email = email}

\* main_update without the test `v is not None`
main_update_none(existing, safe_kwargs) ==
    [k \in DOMAIN existing |->
        IF k \in DOMAIN safe_kwargs /\ existing[k] # safe_kwargs[k]
        THEN safe_kwargs[k]
        ELSE existing[k]]

\* The update branch: overwrite with the non-empty values that differ
main_update(existing, safe_kwargs) ==
    [k \in DOMAIN existing |->
        IF k \in DOMAIN safe_kwargs /\ safe_kwargs[k] # None
           /\ existing[k] # safe_kwargs[k]
        THEN safe_kwargs[k]
        ELSE existing[k]]

\* What one iteration did: kw the cleaned kwargs, existing the id of the
\* matched lead (0: none), act the counter it incremented, before and after
\* the Lead table around it
LogEntry(kw, ex, act, before, after) ==
    [kw |-> kw, existing |-> ex, act |-> act, before |-> before, after |-> after]

\* main_existing without the test of args.update
main_existing_always(st, e, safe_kwargs, update) ==
    LET existing == st.leads[e]
        new == main_update(existing, safe_kwargs)
        after == [st.leads EXCEPT ![e] = new]
    IN  IF new # existing
        THEN [st EXCEPT
                !.leads = after,
                !.updated = @ + 1,
                !.log = Append(@, LogEntry(safe_kwargs, e, "update",
                                           st.leads, after))]
        ELSE [st EXCEPT
                !.skipped = @ + 1,
                !.log = Append(@, LogEntry(safe_kwargs, e, "skip",
                                           st.leads, st.leads))]

\* The branch `if existing:` for the matched lead e
main_existing(st, e, safe_kwargs, update) ==
    LET existing == st.leads[e]
        new == main_update(existing, safe_kwargs)
        changed == new # existing
        after == [st.leads EXCEPT ![e] = new]
    IN  IF update
        THEN IF changed
             THEN [st EXCEPT
                     !.leads = after,
                     !.updated = @ + 1,
                     !.log = Append(@, LogEntry(safe_kwargs, e, "update",
                                                st.leads, after))]
             ELSE [st EXCEPT
                     !.skipped = @ + 1,
                     !.log = Append(@, LogEntry(safe_kwargs, e, "skip",
                                                st.leads, st.leads))]
        ELSE [st EXCEPT
                !.skipped = @ + 1,
                !.log = Append(@, LogEntry(safe_kwargs, e, "skip",
                                           st.leads, st.leads))]

\* The branch `else:` db.session.add(Lead(**safe_kwargs))
main_insert(st, safe_kwargs, now) ==
    LET added == Append(st.leads, Lead(safe_kwargs, Len(st.leads) + 1, now))
    IN  [st EXCEPT
           !.leads = added,
           !.inserted = @ + 1,
           !.log = Append(@, LogEntry(safe_kwargs, 0, "insert", st.leads, added))]

\* main_row whose query does not see the leads added earlier in the run (a
\* session without autoflush): it looks in the store the run started on
main_row_noflush(st, row, update, now) ==
    LET safe_kwargs == scrub_kwargs(row_to_kwargs(row))
        company == safe_kwargs.company
        email == safe_kwargs.contact_email
        start == IF st.log = <<>> THEN st.leads ELSE st.log[1].before
        cands == IF Truthy(company) \/ Truthy(email)
                 THEN main_candidates(start, company, email)
                 ELSE {}
    IN  IF cands # {}
        THEN {main_existing(st, e, safe_kwargs, update) : e \in cands}
        ELSE {main_insert(st, safe_kwargs, now)}

\* main_row that looks for an existing lead only when args.update is set
main_row_nodedupe(st, row, update, now) ==
    LET safe_kwargs == scrub_kwargs(row_to_kwargs(row))
        company == safe_kwargs.company
        email == safe_kwargs.contact_email
        cands == IF update /\ (Truthy(company) \/ Truthy(email))
                 THEN main_candidates(st.leads, company, email)
                 ELSE {}
    IN  IF cands # {}
        THEN {main_existing(st, e, safe_kwargs, update) : e \in cands}
        ELSE {main_insert(st, safe_kwargs, now)}

\* One iteration of the loop on the running state st; the result is the set
\* of states it can leave, one for each row q.first() may return (the query
\* has no ORDER BY)
main_row(st, row, update, now) ==
    LET safe_kwargs == scrub_kwargs(row_to_kwargs(row))
        company == safe_kwargs.company
        email == safe_kwargs.contact_email
        cands == IF Truthy(company) \/ Truthy(email)
                 THEN main_candidates(st.leads, company, email)
                 ELSE {}
    IN  IF cands # {}
        THEN {main_existing(st, e, safe_kwargs, update) : e \in cands}
        ELSE {main_insert(st, safe_kwargs, now)}

RECURSIVE main_loop(_, _, _, _, _)
main_loop(sts, rows, i, update, now) ==
    IF i > Len(rows) THEN sts
    ELSE main_loop(UNION {main_row(st, rows[i], update, now) : st \in sts},
                   rows, i + 1, update, now)

RunStart(ls) ==
    [leads |-> ls, inserted |-> 0, updated |-> 0, skipped |-> 0, log |-> <<>>]

----------------------------------------------------------------------------
(* The uploaded / named file and the record of the last operation *)

\* exists: the path exists (main) or a file was chosen (import_leads_view);
\* ext: the lowercased extension; readable: pandas can read it; df: the frame
File(exists, ext, readable, df) ==
    [exists |-> exists, ext |-> ext, readable |-> readable, df |-> df]

NoFrame == [cols |-> {}, rows |-> <<>>]
NoFile == File(FALSE, "", FALSE, NoFrame)

Msg(text, cat) == [text |-> text, cat |-> cat]

\* What the last operation was given and what it answered: status is the
\* HTTP status (or the exit code of main), msgs the messages reported
NoLast ==
    [op |-> "none", status |-> 0, msgs |-> <<>>, file |-> NoFile,
     update |-> FALSE, inserted |-> 0, updated |-> 0,
     skipped |-> 0, log |-> <<>>, lead_id |-> 0, value |-> None,
     looked_up |-> FALSE]

----------------------------------------------------------------------------
(* import_leads.py main *)

ALLOWED_EXTENSIONS == {".xlsx", ".xls", ".csv"}

\* read_table that reads any extension as CSV
read_table_anyext(f) ==
    IF f.ext \in {".xlsx", ".xls"} THEN (IF f.readable THEN f.df ELSE Raised)
    ELSE (IF f.readable THEN f.df ELSE Raised)

\* read_table: the frame, or Raised
read_table(f) ==
    IF f.ext \in {".xlsx", ".xls"} THEN (IF f.readable THEN f.df ELSE Raised)
    ELSE IF f.ext = ".csv" THEN (IF f.readable THEN f.df ELSE Raised)
    ELSE Raised

df_empty(df) == df.cols = {} \/ Len(df.rows) = 0

\* The results main can end with, as records of the operation
main_results(ls, f, update, now) ==
    LET base == [NoLast EXCEPT !.op = "main", !.file = f, !.update = update]
    IN  IF ~f.exists
        THEN {[leads |-> ls,
               last |-> [base EXCEPT !.status = 1,
                            !.msgs = <<Msg("File not found", "print")>>]]}
        ELSE LET df == read_table(f)
             IN  IF df = Raised
                 THEN {[leads |-> ls,
                        last |-> [base EXCEPT !.status = 1,
                                     !.msgs = <<Msg("Traceback", "error")>>]]}
                 ELSE IF df_empty(df)
                 THEN {[leads |-> ls,
                        last |-> [base EXCEPT !.status = 0,
                                     !.msgs = <<Msg("No rows in file.", "print")>>]]}
                 ELSE {[leads |-> st.leads,
                        last |-> [base EXCEPT !.status = 0,
                                     !.msgs = <<Msg("Imported", "print")>>,
                                     !.inserted = st.inserted,
                                     !.updated = st.updated,
                                     !.skipped = st.skipped,
                                     !.log = st.log]]
                       : st \in main_loop({RunStart(ls)}, df.rows, 1, update, now)}

main(f, update) ==
    /\ \E r \in main_results(leads, f, update, utcnow) :
          /\ leads' = r.leads
          /\ last' = r.last
    /\ UNCHANGED utcnow

----------------------------------------------------------------------------
(* app.py: the in-app importer *)

app_is_empty(v) ==
    IF pd_isna(v) THEN TRUE
    ELSE IF v.t = "None" THEN TRUE
    ELSE IsStr(v) /\ Strip(v.s) = <<>>

app_parse_date_safe(v) ==
    IF app_is_empty(v) THEN None
    ELSE IF v.t = "Timestamp" THEN DateOf(v)
    ELSE IF v.t = "datetime" THEN DateOf(v)
    ELSE IF v.t = "date" THEN v
    ELSE LET ts == pd_to_datetime(v)
         IN  IF ts = Raised THEN None
             ELSE IF pd_isna(ts) THEN None
             ELSE DateOf(ts)

\* row_to_lead_kwargs.pick_text: returns None at the first alias that is a
\* column, and None when none is
app_pick_text(row, names) ==
    LET present == {i \in 1..Len(names) : names[i] \in DOMAIN row}
    IN  IF present = {} THEN None ELSE None

row_to_lead_kwargs(row) ==
    [f \in KwFields |->
        IF f = "lead_date"
        THEN IF "date" \in DOMAIN row THEN app_parse_date_safe(row["date"]) ELSE None
        ELSE app_pick_text(row, Aliases(f))]

\* Lines 517-523 of import_leads_view: the clean-up of kwargs
view_safe(kwargs) ==
    [k \in DOMAIN kwargs |->
        IF k = "lead_date" THEN app_parse_date_safe(kwargs[k])
        ELSE IF kwargs[k] = None \/ (IsStr(kwargs[k]) /\ Strip(kwargs[k].s) = <<>>)
        THEN None
        ELSE kwargs[k]]

view_candidates(ls, company, email) ==
    {i \in 1..Len(ls) :
        /\ Truthy(company) => ls[i].company = company
        /\ Truthy(email) => ls[i].contact_email = email}

view_update(existing, safe) ==
    [k \in DOMAIN existing |->
        IF k \in DOMAIN safe /\ safe[k] # None /\ existing[k] # safe[k]
        THEN safe[k]
        ELSE existing[k]]

\* One iteration of the loop of import_leads_view: a match is always updated
view_row(st, row, now) ==
    LET safe == view_safe(row_to_lead_kwargs(row))
        company == safe.company
        email == safe.contact_email
        cands == IF Truthy(company) \/ Truthy(email)
                 THEN view_candidates(st.leads, company, email)
                 ELSE {}
    IN  IF cands # {}
        THEN {LET existing == st.leads[e]
                  new == view_update(existing, safe)
                  changed == new # existing
              IN  IF changed
                  THEN [st EXCEPT
                          !.leads = [st.leads EXCEPT ![e] = new],
                          !.updated = @ + 1,
                          !.log = Append(@, LogEntry(safe, e, "update",
                                     st.leads, [st.leads EXCEPT ![e] = new]))]
                  ELSE [st EXCEPT
                          !.skipped = @ + 1,
                          !.log = Append(@, LogEntry(safe, e, "skip",
                                     st.leads, st.leads))]
              : e \in cands}
        ELSE {LET added == Append(st.leads, Lead(safe, Len(st.leads) + 1, now))
              IN  [st EXCEPT
                     !.leads = added,
                     !.inserted = @ + 1,
                     !.log = Append(@, LogEntry(safe, 0, "insert",
                                st.leads, added))]}

RECURSIVE view_loop(_, _, _, _)
view_loop(sts, rows, i, now) ==
    IF i > Len(rows) THEN sts
    ELSE view_loop(UNION {view_row(st, rows[i], now) : st \in sts},
                   rows, i + 1, now)

\* The results of a POST to /import; the importer has no update switch,
\* recorded as update = TRUE
import_leads_view_results(ls, f, now) ==
    LET base == [NoLast EXCEPT !.op = "import_leads_view", !.file = f,
                               !.update = TRUE, !.status = 302]
        failed(text) == {[leads |-> ls,
                          last |-> [base EXCEPT !.msgs = <<Msg(text, "error")>>]]}
    IN  IF ~f.exists THEN failed("Please choose a file.")
        ELSE IF f.ext \notin ALLOWED_EXTENSIONS
        THEN failed("Unsupported file type. Use .xlsx, .xls, or .csv")
        ELSE IF ~f.readable THEN failed("Could not read file")
        ELSE IF df_empty(f.df) THEN failed("No rows found in file.")
        ELSE {[leads |-> st.leads,
               last |-> [base EXCEPT !.msgs = <<Msg("Imported", "success")>>,
                            !.inserted = st.inserted,
                            !.updated = st.updated,
                            !.skipped = st.skipped,
                            !.log = st.log]]
              : st \in view_loop({RunStart(ls)}, f.df.rows, 1, now)}

import_leads_view(f) ==
    /\ \E r \in import_leads_view_results(leads, f, utcnow) :
          /\ leads' = r.leads
          /\ last' = r.last
    /\ UNCHANGED utcnow

----------------------------------------------------------------------------
(* The files and stores the import runs are checked on *)

tA == Str(<<"A">>)
tB == Str(<<"B">>)
tPadA == Str(<<" ", "A", " ">>)
tBlank == Str(<<" ">>)
tX == Str(<<"x">>)
tY == Str(<<"y">>)
t1 == Str(<<"1">>)
t2 == Str(<<"2">>)

\* A profile gives the columns of a frame and the cells each may hold
ProfileKeys == [company |-> {NaN, tA, tB}, email |-> {NaN, tX}]
ProfilePhone == [company |-> {tPadA, tB}, phone |-> {tBlank, t1, t2}]
ProfileAlias == ("email" :> {NaN, tX}) @@ ("contact email" :> {NaN, tY})
ProfileDate == [company |-> {tA},
                date |-> {NaT, tBlank, Str(sIso1), Str(sBad)}]
ProfileNative == [date |-> {Str(sIso2), Timestamp(3, 9), PyDatetime(3, 9),
                            PyDate(2), PyBool}]

Profiles == {ProfileKeys, ProfilePhone, ProfileAlias, ProfileDate,
             ProfileNative}

RowsOf(p) == {row \in [DOMAIN p -> UNION {p[c] : c \in DOMAIN p}] :
                 \A c \in DOMAIN p : row[c] \in p[c]}

SeqsUpTo(S, n) == UNION {[1..k -> S] : k \in 1..n}

Frames(n) ==
    UNION {{[cols |-> DOMAIN p, rows |-> rs] : rs \in SeqsUpTo(RowsOf(p), n)}
           : p \in Profiles}

SampleFrame == [cols |-> {"company"}, rows |-> <<[company |-> tB]>>]

\* The files that fail as a whole: no file, a wrong extension, a file pandas
\* cannot read, a sheet without rows
BadFiles ==
    {File(FALSE, ".csv", TRUE, SampleFrame),
     File(TRUE, ".txt", TRUE, SampleFrame),
     File(TRUE, ".xlsx", FALSE, SampleFrame),
     File(TRUE, ".csv", TRUE, [cols |-> {"company"}, rows |-> <<>>])}

Files(n) == {File(TRUE, ".csv", TRUE, df) : df \in Frames(n)} \cup BadFiles

\* Leads as add_lead or an earlier import leaves them
Kw(company, email, phone, lead_date) ==
    [NoKwargs EXCEPT !.company = company, !.contact_email = email,
                     !.phone = phone, !.lead_date = lead_date]

InitKwargs == {Kw(tA, tX, t1, None), Kw(tB, None, None, PyDate(2))}

\* The sequences of at most n distinct elements of S
RECURSIVE Arrangements(_, _)
Arrangements(S, n) ==
    IF n = 0 THEN {<<>>}
    ELSE {<<>>} \cup UNION {{<<x>> \o r : r \in Arrangements(S \ {x}, n - 1)}
                            : x \in S}

\* The board has classified them: a good lead that was contacted, a lead
\* that was marked dead
Classified(l) ==
    IF l.contact_email # None
    THEN [l EXCEPT !.stage = Str(<<"c", "o", "n", "t", "a", "c", "t", "e", "d">>), !.quality = Str(<<"g", "o", "o", "d">>)]
    ELSE [l EXCEPT !.stage = Str(<<"l", "o", "s", "t">>)]

InitStores ==
    {[i \in 1..Len(kws) |-> Classified(Lead(kws[i], i, 0))]
     : kws \in Arrangements(InitKwargs, MaxInitLeads)}

----------------------------------------------------------------------------
(* The import runs: a first run of either importer on any file; main may  *)
(* then be run again on the same file                                     *)

FileChoices == IF runs = 0 THEN Files(MaxRows) ELSE {last.file}

\* A re-run is the plain command again, without --update
UpdateChoices == IF runs = 0 THEN BOOLEAN ELSE {FALSE}

ImportCli ==
    /\ runs < MaxRuns
    /\ runs = 0 \/ last.op = "main"
    /\ \E f \in FileChoices, update \in UpdateChoices : main(f, update)
    /\ prev' = last
    /\ runs' = runs + 1

ImportApp ==
    /\ runs = 0
    /\ \E f \in FileChoices : import_leads_view(f)
    /\ prev' = last
    /\ runs' = runs + 1

InitImport ==
    /\ leads \in InitStores
    /\ last = NoLast
    /\ prev = NoLast
    /\ utcnow = 1
    /\ runs = 0

NextImport == ImportCli \/ ImportApp

SpecImport == InitImport /\ [][NextImport]_vars

----------------------------------------------------------------------------
(* app.py: the handlers that write one lead *)

sNew == <<"n", "e", "w">>
sContacted == <<"c", "o", "n", "t", "a", "c", "t", "e", "d">>
sQualified == <<"q", "u", "a", "l", "i", "f", "i", "e", "d">>
sQuoted == <<"q", "u", "o", "t", "e", "d">>
sWon == <<"w", "o", "n">>
sLost == <<"l", "o", "s", "t">>
sGood == <<"g", "o", "o", "d">>
sWarm == <<"w", "a", "r", "m">>
sBad2 == <<"b", "a", "d">>

STAGES == <<sNew, sContacted, sQualified, sQuoted, sWon, sLost>>

QUALITIES == <<sGood, sWarm, sBad2>>

InSeq(x, seq) == \E i \in 1..Len(seq) : seq[i] = x

\* (s or "new").lower(); Raised when the value has no lower()
stage_or_default(s) ==
    LET v == IF Truthy(s) THEN s ELSE Str(sNew)
    IN  IF IsStr(v) THEN Str(Lower(v.s)) ELSE Raised

Exists(ls, lead_id) == lead_id \in 1..Len(ls)

\* The answer of a handler that ends with jsonify or flash + redirect
Answered(base, json, text) ==
    IF json THEN [base EXCEPT !.status = 200]
    ELSE [base EXCEPT !.status = 302, !.msgs = <<Msg(text, "success")>>]

\* api_kanban_update that stores the stage as it was sent
api_kanban_update_result_raw(ls, lead_id, stage) ==
    LET base == [NoLast EXCEPT !.op = "api_kanban_update", !.lead_id = lead_id,
                               !.value = stage]
        new_stage == stage_or_default(stage)
    IN  IF new_stage = Raised
        THEN [leads |-> ls, last |-> [base EXCEPT !.status = 500]]
        ELSE IF ~InSeq(new_stage.s, STAGES)
        THEN [leads |-> ls,
              last |-> [base EXCEPT !.status = 400,
                           !.msgs = <<Msg("invalid stage", "error")>>]]
        ELSE IF ~Exists(ls, lead_id)
        THEN [leads |-> ls,
              last |-> [base EXCEPT !.status = 404, !.looked_up = TRUE]]
        ELSE [leads |-> [ls EXCEPT ![lead_id].stage = stage],
              last |-> [base EXCEPT !.status = 200, !.looked_up = TRUE]]

\* api_kanban_update that looks the lead up before it checks the stage
api_kanban_update_result_lookup(ls, lead_id, stage) ==
    LET base == [NoLast EXCEPT !.op = "api_kanban_update", !.lead_id = lead_id,
                               !.value = stage]
        new_stage == stage_or_default(stage)
    IN  IF new_stage = Raised
        THEN [leads |-> ls, last |-> [base EXCEPT !.status = 500]]
        ELSE IF ~Exists(ls, lead_id)
        THEN [leads |-> ls,
              last |-> [base EXCEPT !.status = 404, !.looked_up = TRUE]]
        ELSE IF ~InSeq(new_stage.s, STAGES)
        THEN [leads |-> ls,
              last |-> [base EXCEPT !.status = 400, !.looked_up = TRUE,
                           !.msgs = <<Msg("invalid stage", "error")>>]]
        ELSE [leads |-> [ls EXCEPT ![lead_id].stage = new_stage],
              last |-> [base EXCEPT !.status = 200, !.looked_up = TRUE]]

api_kanban_update_result(ls, lead_id, stage) ==
    LET base == [NoLast EXCEPT !.op = "api_kanban_update", !.lead_id = lead_id,
                               !.value = stage]
        new_stage == stage_or_default(stage)
    IN  IF new_stage = Raised
        THEN [leads |-> ls, last |-> [base EXCEPT !.status = 500]]
        ELSE IF ~InSeq(new_stage.s, STAGES)
        THEN [leads |-> ls,
              last |-> [base EXCEPT !.status = 400,
                           !.msgs = <<Msg("invalid stage", "error")>>]]
        ELSE IF ~Exists(ls, lead_id)
        THEN [leads |-> ls,
              last |-> [base EXCEPT !.status = 404, !.looked_up = TRUE]]
        ELSE [leads |-> [ls EXCEPT ![lead_id].stage = new_stage],
              last |-> [base EXCEPT !.status = 200, !.looked_up = TRUE]]

api_kanban_update(lead_id, stage) ==
    LET r == api_kanban_update_result(leads, lead_id, stage)
    IN  /\ leads' = r.leads
        /\ last' = r.last
        /\ UNCHANGED <<prev, utcnow, runs>>

set_quality_result(ls, lead_id, raw, json) ==
    LET base == [NoLast EXCEPT !.op = "set_quality", !.lead_id = lead_id,
                               !.value = raw]
        value == Str(Lower((IF Truthy(raw) THEN raw ELSE Str(<<>>)).s))
    IN  IF ~InSeq(value.s, QUALITIES)
        THEN [leads |-> ls,
              last |-> [base EXCEPT !.status = 400,
                           !.msgs = <<Msg("invalid quality", "error")>>]]
        ELSE IF ~Exists(ls, lead_id)
        THEN [leads |-> ls,
              last |-> [base EXCEPT !.status = 404, !.looked_up = TRUE]]
        ELSE [leads |-> [ls EXCEPT ![lead_id].quality = value],
              last |-> Answered([base EXCEPT !.looked_up = TRUE], json,
                                "Marked lead")]

set_quality(lead_id, raw, json) ==
    LET r == set_quality_result(leads, lead_id, raw, json)
    IN  /\ leads' = r.leads
        /\ last' = r.last
        /\ UNCHANGED <<prev, utcnow, runs>>

\* mark_dead that deletes the row
mark_dead_result_delete(ls, lead_id, json) ==
    LET base == [NoLast EXCEPT !.op = "mark_dead", !.lead_id = lead_id,
                               !.looked_up = TRUE]
    IN  IF ~Exists(ls, lead_id)
        THEN [leads |-> ls, last |-> [base EXCEPT !.status = 404]]
        ELSE [leads |-> SubSeq(ls, 1, lead_id - 1)
                            \o SubSeq(ls, lead_id + 1, Len(ls)),
              last |-> Answered(base, json, "Lead marked as Dead.")]

mark_dead_result(ls, lead_id, json) ==
    LET base == [NoLast EXCEPT !.op = "mark_dead", !.lead_id = lead_id,
                               !.looked_up = TRUE]
    IN  IF ~Exists(ls, lead_id)
        THEN [leads |-> ls, last |-> [base EXCEPT !.status = 404]]
        ELSE [leads |-> [ls EXCEPT ![lead_id].stage = Str(sLost)],
              last |-> Answered(base, json, "Lead marked as Dead.")]

mark_dead(lead_id, json) ==
    LET r == mark_dead_result(leads, lead_id, json)
    IN  /\ leads' = r.leads
        /\ last' = r.last
        /\ UNCHANGED <<prev, utcnow, runs>>

\* restore_dead that puts the lead back only when it has no stage
restore_dead_result_keep(ls, lead_id, json) ==
    LET base == [NoLast EXCEPT !.op = "restore_dead", !.lead_id = lead_id,
                               !.looked_up = TRUE]
    IN  IF ~Exists(ls, lead_id)
        THEN [leads |-> ls, last |-> [base EXCEPT !.status = 404]]
        ELSE [leads |-> [ls EXCEPT ![lead_id].stage =
                            IF @ = None THEN Str(sNew) ELSE @],
              last |-> Answered(base, json, "Lead restored to the board.")]

restore_dead_result(ls, lead_id, json) ==
    LET base == [NoLast EXCEPT !.op = "restore_dead", !.lead_id = lead_id,
                               !.looked_up = TRUE]
    IN  IF ~Exists(ls, lead_id)
        THEN [leads |-> ls, last |-> [base EXCEPT !.status = 404]]
        ELSE [leads |-> [ls EXCEPT ![lead_id].stage = Str(sNew)],
              last |-> Answered(base, json, "Lead restored to the board.")]

restore_dead(lead_id, json) ==
    LET r == restore_dead_result(leads, lead_id, json)
    IN  /\ leads' = r.leads
        /\ last' = r.last
        /\ UNCHANGED <<prev, utcnow, runs>>

\* A board that shows every lead, the dead ones included
on_board_all(l) == TRUE

\* kanban_view keeps the leads that are not dead
on_board(l) == l.stage = None \/ l.stage # Str(sLost)

\* dead_leads_view keeps the dead leads
in_dead_view(l) == l.stage = Str(sLost)

\* The lane of kanban_view for a lead, by (l.stage or "new").lower()
lane(l) ==
    LET s == Lower((IF Truthy(l.stage) THEN l.stage ELSE Str(sNew)).s)
    IN  IF s \in {sQualified, sQuoted, sWon} THEN "in_discussion"
        ELSE IF s = sContacted THEN "waiting_response"
        ELSE "no_contact"

\* groups of kanban_view with no q, rep or quality filter: the ids of the
\* leads of each lane
groups(ls) ==
    [key \in {"no_contact", "in_discussion", "waiting_response"} |->
        {i \in 1..Len(ls) : on_board(ls[i]) /\ lane(ls[i]) = key}]

\* columns of kanban_view: (drop_target_stage, key)
columns ==
    <<[stage |-> sNew, key |-> "no_contact"],
      [stage |-> sQualified, key |-> "in_discussion"],
      [stage |-> sContacted, key |-> "waiting_response"]>>

\* The ids that dead_leads_view lists with no filter
dead_leads(ls) == {i \in 1..Len(ls) : in_dead_view(ls[i])}

----------------------------------------------------------------------------
(* app.py: add_lead *)

FormFields == {"company", "contact_name", "contact_email", "phone",
               "industry", "fleet_size", "notes", "lead_date", "source",
               "address", "city", "rep_select", "rep_other", "rep"}

\* a or b
Or(a, b) == IF Truthy(a) THEN a ELSE b

sOther == <<"_", "_", "o", "t", "h", "e", "r", "_", "_">>

\* datetime.strptime(s, "%Y-%m-%d").date(); Raised on any other text
strptime_date(v) ==
    IF v.s = sIso1 THEN PyDate(2) ELSE Raised

\* The result of a POST to /add with the given form (None: field not sent)
add_lead_result(ls, form, now) ==
    LET base == [NoLast EXCEPT !.op = "add_lead"]
        stripped(k) == Str(Strip(Or(form[k], Str(<<>>)).s))
        rep_select == stripped("rep_select")
        rep_other == stripped("rep_other")
        rep_direct == stripped("rep")
        rep == Or(Or(Or(rep_other,
                        IF rep_select = Str(sOther) THEN None ELSE rep_select),
                     rep_direct), None)
        lead_date == IF Truthy(form["lead_date"])
                     THEN strptime_date(form["lead_date"])
                     ELSE None
        kwargs == [f \in KwFields |->
                     IF f = "lead_date" THEN lead_date
                     ELSE IF f = "rep" THEN rep
                     ELSE Or(form[f], None)]
    IN  IF lead_date = Raised
        THEN [leads |-> ls, last |-> [base EXCEPT !.status = 500]]
        ELSE [leads |-> Append(ls, Lead(kwargs, Len(ls) + 1, now)),
              last |-> [base EXCEPT !.status = 302,
                           !.msgs = <<Msg("Lead added.", "success")>>]]

add_lead(form) ==
    LET r == add_lead_result(leads, form, utcnow)
    IN  /\ leads' = r.leads
        /\ last' = r.last
        /\ UNCHANGED <<prev, utcnow, runs>>

----------------------------------------------------------------------------
(* The requests the handlers are checked on *)

NoForm == [f \in FormFields |-> None]

AddForms ==
    {NoForm,
     [NoForm EXCEPT !.company = tA, !.lead_date = Str(sIso1),
                    !.rep_select = Str(sOther),
                    !.rep_other = Str(<<" ", "R">>), !.notes = Str(<<>>)],
     [NoForm EXCEPT !.company = tA, !.lead_date = Str(sBad)]}

StageInputs ==
    {None, Str(sContacted), Str(sQualified), Str(sQuoted),
     Str(<<"W", "o", "n">>), Str(<<"d", "o", "n", "e">>), PyBool}

QualityInputs ==
    {Str(sGood), Str(<<"B", "A", "D">>),
     Str(<<"u", "n", "k", "n", "o", "w", "n">>)}

LifeFiles ==
    {File(TRUE, ".csv", TRUE,
          [cols |-> {"company", "date", "rep"},
           rows |-> <<[company |-> tPadA, date |-> Str(sIso1),
                       rep |-> Str(<<"R">>)]>>]),
     File(TRUE, ".txt", TRUE, SampleFrame)}

Ids == 1..(Len(leads) + 1)

\* Whether the request asks for JSON (X-Requested-With: fetch)
Fetch == {FALSE}

AddLead ==
    /\ Len(leads) < MaxLeads
    /\ \E form \in AddForms : add_lead(form)

KanbanUpdate ==
    \E lead_id \in Ids, stage \in StageInputs : api_kanban_update(lead_id, stage)

SetQuality ==
    \E lead_id \in Ids, raw \in QualityInputs, json \in Fetch :
        set_quality(lead_id, raw, json)

MarkDead == \E lead_id \in Ids, json \in Fetch : mark_dead(lead_id, json)

RestoreDead == \E lead_id \in Ids, json \in Fetch : restore_dead(lead_id, json)

RunMain ==
    \E f \in LifeFiles, update \in BOOLEAN :
        /\ Len(leads) + Len(f.df.rows) <= MaxLeads
        /\ main(f, update)
        /\ UNCHANGED <<prev, runs>>

PostImport ==
    \E f \in LifeFiles :
        /\ Len(leads) + Len(f.df.rows) <= MaxLeads
        /\ import_leads_view(f)
        /\ UNCHANGED <<prev, runs>>

Init ==
    /\ leads = <<>>
    /\ last = NoLast
    /\ prev = NoLast
    /\ utcnow = 0
    /\ runs = 0

Next ==
    \/ AddLead
    \/ KanbanUpdate
    \/ SetQuality
    \/ MarkDead
    \/ RestoreDead
    \/ RunMain
    \/ PostImport

Spec == Init /\ [][Next]_vars


----------------------------------------------------------------------------
(* utils/ai_analysis.py: helpers *)

\* An attribute the snapshot does not have
Absent == Val("absent", <<>>, 0, 0)

\* getattr(lead, name, default)
getattr(lead, name, default) ==
    IF lead[name] = Absent THEN default ELSE lead[name]

\* _v without the `or ""`: s.strip()
_v_nodefault(s) == IF IsStr(s) THEN Str(Strip(s.s)) ELSE Raised

\* (s or "").strip(); Raised when the value has no strip()
_v(s) ==
    LET x == IF Truthy(s) THEN s ELSE Str(<<>>)
    IN  IF IsStr(x) THEN Str(Strip(x.s)) ELSE Raised

_lower(s) == IF _v(s) = Raised THEN Raised ELSE Str(Lower(_v(s).s))

_safe_date(d) ==
    IF d.t = "datetime" THEN PyDate(d.d)
    ELSE IF d.t = "date" THEN d
    ELSE None

\* s[p..] starts with k
StartsAt(s, p, k) ==
    /\ p + Len(k) - 1 <= Len(s)
    /\ \A i \in 1..Len(k) : s[p + i - 1] = k[i]

\* k in s
Contains(s, k) == \E p \in 1..(Len(s) + 1) : StartsAt(s, p, k)

\* any(k in s for k in ks)
AnyIn(s, ks) == \E i \in 1..Len(ks) : Contains(s, ks[i])

\* text.strip().splitlines()[0] cut to max_len characters ("Unknown" for an
\* empty text); the cut is marked by the ellipsis character
_first_line(text) ==
    IF text = <<>> THEN <<"U", "n", "k", "n", "o", "w", "n">>
    ELSE LET t == Strip(text)
             nl == {i \in 1..Len(t) : t[i] = "\n"}
             s == IF nl = {} THEN t ELSE SubSeq(t, 1, Min(nl) - 1)
         IN  IF Len(s) > 120
             THEN SubSeq(s, 1, 120) \o <<"...">>
             ELSE s

----------------------------------------------------------------------------
(* utils/ai_analysis.py: daily usage *)

Digits == <<"0", "1", "2", "3", "4", "5", "6", "7", "8", "9">>

IsDigit(c) == \E i \in 1..Len(Digits) : Digits[i] = c

DigitVal(c) == (CHOOSE i \in 1..Len(Digits) : Digits[i] = c) - 1

\* \w of the regular expression
IsWord(c) ==
    \/ IsDigit(c)
    \/ c = "_"
    \/ \E i \in 1..Len(LowerOf) : LowerOf[i] = c \/ Upper[i] = c

\* \s of the regular expression
IsSpace(c) == c \in {" ", "\t", "\n"}

\* The alternatives of (?:hr|hrs|hour|hours), in the order they are tried
HoursUnits ==
    <<<<"h", "r">>, <<"h", "r", "s">>, <<"h", "o", "u", "r">>, <<"h", "o",
    "u", "r", "s">>>>

RECURSIVE SkipSpace(_, _)
SkipSpace(s, p) ==
    IF p <= Len(s) /\ IsSpace(s[p]) THEN SkipSpace(s, p + 1) ELSE p

\* \b after a unit that ends at position e
WordEnd(s, e) == e = Len(s) \/ ~IsWord(s[e + 1])

\* The match of \s*(?:hr|hrs|hour|hours)\b at p: the position of its last
\* character, 0 when there is none
UnitEnd(s, p) ==
    LET q == SkipSpace(s, p)
        ok == {i \in 1..Len(HoursUnits) :
                  /\ StartsAt(s, q, HoursUnits[i])
                  /\ WordEnd(s, q + Len(HoursUnits[i]) - 1)}
    IN  IF ok = {} THEN 0 ELSE q + Len(HoursUnits[Min(ok)]) - 1

\* _HOURS_RE matched at position p: (\d{1,2}) takes two digits when the rest
\* matches after them, else one
HoursMatch(s, p) ==
    LET two == /\ p + 1 <= Len(s) /\ IsDigit(s[p]) /\ IsDigit(s[p + 1])
               /\ UnitEnd(s, p + 2) # 0
        one == /\ p <= Len(s) /\ IsDigit(s[p])
               /\ UnitEnd(s, p + 1) # 0
    IN  IF two
        THEN [ok |-> TRUE, n |-> 10 * DigitVal(s[p]) + DigitVal(s[p + 1]),
              end |-> UnitEnd(s, p + 2)]
        ELSE IF one
        THEN [ok |-> TRUE, n |-> DigitVal(s[p]), end |-> UnitEnd(s, p + 1)]
        ELSE [ok |-> FALSE, n |-> 0, end |-> 0]

Max(a, b) == IF a >= b THEN a ELSE b

\* The loop over _HOURS_RE.finditer(notes): the matches from left to right,
\* none overlapping the one before
RECURSIVE hours_loop(_, _, _)
hours_loop(s, p, hours) ==
    IF p > Len(s) THEN hours
    ELSE LET m == HoursMatch(s, p)
         IN  IF m.ok THEN hours_loop(s, m.end + 1, Max(hours, m.n))
             ELSE hours_loop(s, p + 1, hours)

MultiShift ==
    <<<<"2", "4", "/", "7">>, <<"2", "4", "x", "7">>, <<"t", "h", "r", "e",
    "e", " ", "s", "h", "i", "f", "t">>, <<"3", " ", "s", "h", "i", "f",
    "t">>, <<"t", "r", "i", "p", "l", "e", " ", "s", "h", "i", "f", "t">>>>

TwoShift ==
    <<<<"t", "w", "o", " ", "s", "h", "i", "f", "t">>, <<"2", " ", "s", "h",
    "i", "f", "t">>, <<"d", "o", "u", "b", "l", "e", " ", "s", "h", "i", "f",
    "t">>>>

\* The usage that the hour count alone gives
usage_by_hours(hours) ==
    IF hours >= 12 THEN "Heavy (long daily runtime)"
    ELSE IF 8 <= hours /\ hours < 12 THEN "Medium (about one shift)"
    ELSE IF 1 <= hours /\ hours < 8 THEN "Light to medium (a few hours daily)"
    ELSE "Unknown"

\* _simplify_usage that consults the hour count before the keywords
_simplify_usage_hours_first(lead) ==
    LET notes == _lower(getattr(lead, "notes", Str(<<>>)))
    IN  IF notes = Raised THEN "Raised"
        ELSE IF hours_loop(notes.s, 1, 0) >= 1
        THEN usage_by_hours(hours_loop(notes.s, 1, 0))
        ELSE IF AnyIn(notes.s, MultiShift)
        THEN "Heavy (multiple shifts / long hours)"
        ELSE IF AnyIn(notes.s, TwoShift)
        THEN "Medium to heavy (often two shifts)"
        ELSE "Unknown"

_simplify_usage(lead) ==
    LET notes == _lower(getattr(lead, "notes", Str(<<>>)))
    IN  IF notes = Raised THEN "Raised"
        ELSE IF AnyIn(notes.s, MultiShift)
        THEN "Heavy (multiple shifts / long hours)"
        ELSE IF AnyIn(notes.s, TwoShift)
        THEN "Medium to heavy (often two shifts)"
        ELSE usage_by_hours(hours_loop(notes.s, 1, 0))

----------------------------------------------------------------------------
(* utils/ai_analysis.py: environment and industry profile *)

EnvCold ==
    <<<<"c", "o", "l", "d">>, <<"f", "r", "e", "e", "z", "e", "r">>, <<"r",
    "e", "f", "r", "i", "g", "e", "r", "a", "t", "e", "d">>, <<"c", "o", "l",
    "d", " ", "s", "t", "o", "r", "a", "g", "e">>>>

EnvDusty ==
    <<<<"d", "u", "s", "t">>, <<"s", "a", "w", "d", "u", "s", "t">>, <<"g",
    "r", "a", "i", "n">>, <<"p", "o", "w", "d", "e", "r">>>>

EnvRamps ==
    <<<<"r", "a", "m", "p">>, <<"g", "r", "a", "d", "e">>, <<"s", "l", "o",
    "p", "e">>>>

EnvOutdoor ==
    <<<<"o", "u", "t", "d", "o", "o", "r">>, <<"y", "a", "r", "d">>, <<"l",
    "o", "t">>>>

EnvYard ==
    <<<<"c", "o", "n", "s", "t", "r", "u", "c", "t", "i", "o", "n">>, <<"y",
    "a", "r", "d">>, <<"l", "u", "m", "b", "e", "r">>>>

EnvIndoor ==
    <<<<"i", "n", "d", "o", "o", "r">>, <<"w", "a", "r", "e", "h", "o", "u",
    "s", "e">>, <<"d", "i", "s", "t", "r", "i", "b", "u", "t", "i", "o",
    "n">>>>

\* The flags of _env_from_lead, for notes and industry already lowered
env_flags(notes, industry) ==
    [cold |-> AnyIn(notes, EnvCold),
     dusty |-> AnyIn(notes, EnvDusty),
     ramps |-> AnyIn(notes, EnvRamps),
     outdoor |-> AnyIn(notes, EnvOutdoor) \/ AnyIn(industry, EnvYard),
     indoor |-> \/ Contains(notes, EnvIndoor[1])
                \/ Contains(industry, EnvIndoor[2])
                \/ Contains(industry, EnvIndoor[3])]

_env_from_lead(lead) ==
    LET notes == _lower(getattr(lead, "notes", Str(<<>>)))
        industry == _lower(getattr(lead, "industry", Str(<<>>)))
    IN  IF notes = Raised \/ industry = Raised THEN Raised
        ELSE env_flags(notes.s, industry.s)

\* The keyword tuples of the profiles, in the order of the list
KeysAgri ==
    <<<<"a", "g", "r", "i", "c", "u", "l", "t", "u", "r", "e">>, <<"a", "g",
    "r", "i">>, <<"g", "r", "a", "i", "n">>, <<"b", "u", "n", "g", "e">>,
    <<"f", "o", "o", "d">>, <<"e", "d", "i", "b", "l", "e", " ", "o", "i",
    "l">>, <<"m", "i", "l", "l", "i", "n", "g">>>>

KeysManufacturing ==
    <<<<"m", "a", "n", "u", "f", "a", "c", "t", "u", "r", "i", "n", "g">>,
    <<"f", "a", "b", "r", "i", "c", "a", "t", "i", "o", "n">>, <<"h", "e",
    "a", "v", "y", " ", "m", "a", "c", "h", "i", "n", "e", "r", "y">>>>

KeysLogistics ==
    <<<<"l", "o", "g", "i", "s", "t", "i", "c", "s">>, <<"3", "p", "l">>,
    <<"w", "a", "r", "e", "h", "o", "u", "s", "e">>, <<"d", "i", "s", "t",
    "r", "i", "b", "u", "t", "i", "o", "n">>, <<"e", "c", "o", "m", "m", "e",
    "r", "c", "e">>, <<"r", "e", "t", "a", "i", "l">>>>

KeysConstruction ==
    <<<<"c", "o", "n", "s", "t", "r", "u", "c", "t", "i", "o", "n">>, <<"y",
    "a", "r", "d">>, <<"l", "u", "m", "b", "e", "r">>>>

KeysCold ==
    <<<<"c", "o", "l", "d">>, <<"f", "r", "e", "e", "z", "e", "r">>, <<"r",
    "e", "f", "r", "i", "g", "e", "r", "a", "t", "e", "d">>>>

\* The sentences are named by their first words
profiles ==
    <<[keys |-> KeysAgri,
       pains |-> <<"Tight delivery windows...", "Food-safety expectations...",
                   "Outdoor yard moves...">>,
       proof |-> <<"We typically lower total cost...", "Parts availability...",
                   "Lithium options...">>,
       tracks |-> <<"Segment by daily usage...", "Use Li-ion for indoor...",
                    "Offer a quick survey...">>],
      [keys |-> KeysManufacturing,
       pains |-> <<"Mixed loads and shift patterns...",
                   "Unplanned stoppages...", "Common attachments...">>,
       proof |-> <<"A robust chassis...", "Predictive maintenance...",
                   "Lead times are competitive...">>,
       tracks |-> <<"Start with a short time-motion check...",
                    "Standardize sideshifters...", "Pilot one Li-ion unit...">>],
      [keys |-> KeysLogistics,
       pains |-> <<"Seasonal peaks...", "Aisle width and racking heights...",
                   "Operator turnover...">>,
       proof |-> <<"We provide reach and narrow-aisle...",
                   "Rental and burst-capacity...", "Telematics...">>,
       tracks |-> <<"Measure aisle width...", "Bundle flexible rental...",
                    "Add blue lights...">>],
      [keys |-> KeysConstruction,
       pains |-> <<"Uneven surfaces...", "Fuel and energy costs...",
                   "Small on-site teams...">>,
       proof |-> <<"Pneumatic tire IC or Li-ion...", "Mobile service...",
                   "Pricing stays competitive...">>,
       tracks |-> <<"Specify pneumatics...", "Confirm grades...",
                    "Offer service SLAs...">>],
      [keys |-> KeysCold,
       pains |-> <<"Cold environments...", "Corrosion risks...",
                   "Operator comfort...">>,
       proof |-> <<"Cold-store packages...", "Li-ion with thermal...",
                   "Seals and grease...">>,
       tracks |-> <<"Use cold-store kits...", "Plan charging strategy...",
                    "Consider cab options...">>]>>

generic ==
    [pains |-> <<"Daily usage is unclear...", "Irregular follow-up...",
                 "Price comparisons...">>,
     proof |-> <<"We maintain reliable service coverage...",
                 "Lower total cost of ownership is typical...",
                 "Short-term trials...">>,
     tracks |-> <<"Schedule a 15-minute discovery...",
                  "Offer a brief pilot...", "Share a one-page ROI...">>]

\* _industry_profile that lets the last matching profile win
RECURSIVE profile_loop_last(_, _)
profile_loop_last(i, n) ==
    IF n > Len(profiles) THEN generic
    ELSE LET rest == profile_loop_last(i, n + 1)
         IN  IF rest # generic THEN rest
             ELSE IF AnyIn(i, profiles[n].keys)
             THEN [pains |-> profiles[n].pains, proof |-> profiles[n].proof,
                   tracks |-> profiles[n].tracks]
             ELSE generic

\* for keys, pains, proof, tracks in profiles: from the n-th on
RECURSIVE profile_loop(_, _)
profile_loop(i, n) ==
    IF n > Len(profiles) THEN generic
    ELSE IF AnyIn(i, profiles[n].keys)
    THEN [pains |-> profiles[n].pains, proof |-> profiles[n].proof,
          tracks |-> profiles[n].tracks]
    ELSE profile_loop(i, n + 1)

\* industry is a str here: every caller passes _v(...) of the field
_industry_profile(industry) == profile_loop(Lower(Strip(industry)), 1)


----------------------------------------------------------------------------
(* utils/ai_analysis.py: the sections of the playbook *)

\* A line of text: the fixed pieces of it (the sentences of the source, named
\* by their first words) and the values formatted into it
Line(k, v) == [k |-> k, v |-> v]

Fixed(k) == Line(<<k>>, <<>>)

BlankLine == Line(<<>>, <<>>)

_recommended_cadence(has_email, has_phone) ==
    (IF has_email THEN <<"Send a short email...">> ELSE <<>>)
    \o (IF has_phone THEN <<"Place a brief call...">>
        ELSE <<"If no phone, send a follow-up email...">>)
    \o <<"Share a concise one-pager...", "If no movement, propose a site walk...">>

_qualification_questions ==
    <<"Typical and peak load weights.", "Required lift height...",
      "Aisle width...", "Hours per shift...", "Environment...",
      "Preferred power...", "Needed attachments...", "Current issues...",
      "Seasonal peaks...">>

IsLetter(c) == \E i \in 1..Len(LowerOf) : LowerOf[i] = c \/ Upper[i] = c

UpperChar(c) ==
    LET hit == {i \in 1..Len(LowerOf) : LowerOf[i] = c}
    IN  IF hit = {} THEN c ELSE Upper[CHOOSE i \in hit : TRUE]

\* str.title()
Title(s) ==
    [i \in 1..Len(s) |->
        IF i = 1 \/ ~IsLetter(s[i - 1]) THEN UpperChar(s[i])
        ELSE LowerChar(s[i])]

\* _subject_line without the fixed sentence
_subject_line_nobase(company, industry) ==
    IF Strip(industry) # <<>> THEN Line(<<>>, <<Title(industry)>>)
    ELSE Line(<<>>, <<company>>)

_subject_line(company, industry) ==
    IF Strip(industry) # <<>>
    THEN Line(<<" operations - A practical idea...">>, <<Title(industry)>>)
    ELSE IF Strip(company) # <<>>
    THEN Line(<<" - A practical idea...">>, <<company>>)
    ELSE Fixed("A practical idea to cut downtime and cost")

\* a or b on str values
OrStr(a, b) == IF a # <<>> THEN a ELSE b

\* The lines of _first_email_body
email_lines(company, contact, industry, prof) ==
    <<Line(<<"Hi ", ",">>, <<contact>>),
      BlankLine,
      Line(<<"I work with material handling teams like ",
             ". Based on similar ", ", we typically help in two areas:">>,
           <<company, OrStr(industry, <<"o", "p", "e", "r", "a", "t", "i", "o", "n", "s">>)>>),
      Line(<<"* ", prof.pains[1]>>, <<>>),
      Line(<<"* ", prof.pains[2]>>, <<>>),
      BlankLine,
      Fixed("Here is how we usually solve those problems:"),
      Line(<<"* ", prof.proof[1]>>, <<>>),
      Line(<<"* ", prof.proof[2]>>, <<>>),
      BlankLine,
      Fixed("Would a quick 15-minute discovery call..."),
      BlankLine,
      Fixed("Best,"),
      Fixed("Thomas Phillips"),
      Fixed("Tynan Equipment Company")>>

_first_email_body(lead) ==
    email_lines(OrStr(_v(getattr(lead, "company", Str(<<>>))).s,
                      <<"y", "o", "u", "r", " ", "t", "e", "a", "m">>),
                OrStr(_v(getattr(lead, "contact_name", Str(<<>>))).s,
                      <<"t", "h", "e", "r", "e">>),
                _v(getattr(lead, "industry", Str(<<>>))).s,
                _industry_profile(_v(getattr(lead, "industry", Str(<<>>))).s))

\* The track sentence is lowered inside the opener
_call_opener(industry) ==
    Line(<<"Hi, this is Thomas with Tynan Equipment...so we can ",
           _industry_profile(industry).tracks[1],
           " Would you have ten to fifteen minutes this week?">>, <<>>)

\* usage.startswith("Heavy"), "Medium" in usage, usage.startswith("Light"):
\* the usages that each test accepts
UsageHeavy == {"Heavy (multiple shifts / long hours)",
               "Heavy (long daily runtime)"}

\* ("Medium" is matched with its capital: "Light to medium ..." has none)
UsageMedium == {"Medium to heavy (often two shifts)",
                "Medium (about one shift)"}

UsageLight == {"Light to medium (a few hours daily)"}

\* guidance with the ramps sentence in place of the truck text
guidance_replace(usage, env, industry) ==
    LET truck == IF env.outdoor \/ AnyIn(industry, EnvYard)
                 THEN "Pneumatic tires..."
                 ELSE IF env.cold THEN "Cold-store package..."
                 ELSE "Cushion tires..."
        level == IF usage \in UsageHeavy THEN 1
                 ELSE IF usage \in UsageMedium THEN 2
                 ELSE IF usage \in UsageLight THEN 3
                 ELSE 4
        power == <<"80V or Li-ion sized for long hours...",
                   "48V (or 36/48V)...", "Standard capacity...",
                   "Choose between IC and Li-ion...">>[level]
        service == <<"Tight PM cadence...", "Regular PM schedule...",
                     "Quarterly PM...", "Baseline PM plan...">>[level]
        charging == <<"Opportunity or fast chargers...",
                      "Standard chargers...", "Overnight charging...",
                      "Pick overnight vs opportunity...">>[level]
    IN  [truck |-> (IF env.ramps THEN <<" Confirm grades...">> ELSE <<truck>>)
                   \o (IF env.dusty THEN <<" Add filtration...">> ELSE <<>>),
         power |-> <<power>>
                   \o (IF env.cold THEN <<" Prefer Li-ion...">> ELSE <<>>),
         charging |-> charging, service |-> service, usage |-> usage]

\* The guidance for a usage, the environment flags and the lowered industry
guidance(usage, env, industry) ==
    LET truck == IF env.outdoor \/ AnyIn(industry, EnvYard)
                 THEN "Pneumatic tires..."
                 ELSE IF env.cold THEN "Cold-store package..."
                 ELSE "Cushion tires..."
        level == IF usage \in UsageHeavy THEN 1
                 ELSE IF usage \in UsageMedium THEN 2
                 ELSE IF usage \in UsageLight THEN 3
                 ELSE 4
        power == <<"80V or Li-ion sized for long hours...",
                   "48V (or 36/48V)...", "Standard capacity...",
                   "Choose between IC and Li-ion...">>[level]
        service == <<"Tight PM cadence...", "Regular PM schedule...",
                     "Quarterly PM...", "Baseline PM plan...">>[level]
        charging == <<"Opportunity or fast chargers...",
                      "Standard chargers...", "Overnight charging...",
                      "Pick overnight vs opportunity...">>[level]
    IN  [truck |-> <<truck>>
                   \o (IF env.ramps THEN <<" Confirm grades...">> ELSE <<>>)
                   \o (IF env.dusty THEN <<" Add filtration...">> ELSE <<>>),
         power |-> <<power>>
                   \o (IF env.cold THEN <<" Prefer Li-ion...">> ELSE <<>>),
         charging |-> charging, service |-> service, usage |-> usage]

_quote_guidance(lead) ==
    guidance(_simplify_usage(lead), _env_from_lead(lead),
             _lower(getattr(lead, "industry", Str(<<>>))).s)

\* (today - created_date).days, with created_date = _safe_date(created_at)
\* or today
days_since(created_at, today) ==
    LET created_date == IF _safe_date(created_at) = None THEN PyDate(today)
                        ELSE _safe_date(created_at)
    IN  today - created_date.d

\* The choice of the next best action with the limits one day late
nba_late(days) ==
    IF days <= 1 THEN "Send the introductory email today..."
    ELSE IF days <= 3 THEN "Make the Day-3 touch..."
    ELSE IF days <= 7 THEN "Share a relevant one-pager..."
    ELSE "Send a brief, respectful final check-in and propose a site walk..."

nba(days) ==
    IF days <= 0 THEN "Send the introductory email today..."
    ELSE IF days <= 2 THEN "Make the Day-3 touch..."
    ELSE IF days <= 6 THEN "Share a relevant one-pager..."
    ELSE "Send a brief, respectful final check-in and propose a site walk..."

\* date.isoformat() of a day of January 2024
isoformat(d) ==
    <<"2", "0", "2", "4", "-", "0", "1", "-",
      Digits[(d.d \div 10) + 1], Digits[(d.d % 10) + 1]>>

\* "\n\n".join(sections): the lines of the sections, a blank line between
JoinSections(section, sections) == section \o <<BlankLine>> \o sections

\* The str attributes that analyze_lead reads
TextAttrs == {"company", "contact_name", "contact_email", "phone",
              "industry", "fleet_size", "notes", "rep", "source", "city",
              "address"}

Attrs == TextAttrs \cup {"created_at", "lead_date"}

\* Whether building the offline document raises: _v on a value that is no
\* str, isoformat on a lead_date that is no date
offline_raises(lead) ==
    \/ \E f \in TextAttrs : _v(getattr(lead, f, Str(<<>>))) = Raised
    \/ LET lead_date == getattr(lead, "lead_date", None)
       IN  Truthy(lead_date) /\ lead_date.t \notin {"date", "datetime"}

\* The sections of the offline document, for the profile and the guidance
\* that analyze_lead computed
sections(lead, today, prof, qg) ==
    LET a(f) == _v(getattr(lead, f, Str(<<>>))).s
        lead_date == getattr(lead, "lead_date", None)
        cadence == _recommended_cadence(a("contact_email") # <<>>,
                                        a("phone") # <<>>)
        days == days_since(getattr(lead, "created_at", None), today)
        opt(k, f) == IF a(f) # <<>> THEN <<Line(<<k>>, <<a(f)>>)>> ELSE <<>>
        summary ==
            <<Fixed("Summary"),
              Line(<<"Company: ">>, <<OrStr(a("company"), <<"U", "n", "k", "n", "o", "w", "n">>)>>)>>
            \o opt("Contact: ", "contact_name")
            \o opt("Email: ", "contact_email")
            \o opt("Phone: ", "phone")
            \o opt("Industry: ", "industry")
            \o opt("City: ", "city")
            \o opt("Source: ", "source")
            \o opt("Rep: ", "rep")
            \o (IF Truthy(lead_date)
                THEN <<Line(<<"Lead date: ">>, <<isoformat(lead_date)>>)>>
                ELSE <<>>)
            \o (IF a("notes") # <<>>
                THEN <<Line(<<"Notes: ">>, <<_first_line(a("notes"))>>)>>
                ELSE <<>>)
            \o <<Line(<<"Daily Usage: ", qg.usage>>, <<>>)>>
        what_works ==
            <<Fixed("What Works"), Line(qg.truck, <<>>), Line(qg.power, <<>>),
              Fixed(qg.charging), Fixed(qg.service), Line(prof.proof, <<>>)>>
    IN  JoinSections(summary,
        JoinSections(<<Fixed("Challenges"), Line(prof.pains, <<>>)>>,
        JoinSections(what_works,
        JoinSections(<<Fixed("Talk Tracks"), Line(prof.tracks, <<>>)>>,
        JoinSections(<<Fixed("Cadence"), Line(cadence, <<>>)>>,
        JoinSections(<<Fixed("Next Best Action"), Fixed(nba(days))>>,
        JoinSections(<<Fixed("Email Subject"),
                       _subject_line(a("company"), a("industry"))>>,
        JoinSections(<<Fixed("First-Touch Email")>> \o _first_email_body(lead),
        JoinSections(<<Fixed("Call Opener"), _call_opener(a("industry"))>>,
                     <<Fixed("Qualification Checklist"),
                       Line(_qualification_questions, <<>>)>>)))))))))

\* The offline document of analyze_lead, as lines
offline(lead, today) ==
    sections(lead, today,
             _industry_profile(_v(getattr(lead, "industry", Str(<<>>))).s),
             _quote_guidance(lead))

\* A line of whitespace only
IsBlank(l) ==
    /\ \A i \in 1..Len(l.k) : l.k[i] \in {"", " "}
    /\ \A i \in 1..Len(l.v) : Strip(l.v[i]) = <<>>

\* str.strip() of a text: the blank lines at both ends go
RECURSIVE StripText(_)
StripText(t) ==
    IF t # <<>> /\ IsBlank(Head(t)) THEN StripText(Tail(t))
    ELSE IF t # <<>> /\ IsBlank(t[Len(t)])
    THEN StripText(SubSeq(t, 1, Len(t) - 1))
    ELSE t

\* What the refinement call does: there is no client (no key, or the openai
\* package is missing), the call or the reading of the response raises, or
\* the response carries a content (None, or a text)
Refine(kind, content) == [kind |-> kind, content |-> content]

\* analyze_lead that lets a failure of the refinement call through
analyze_lead_unguarded(lead, today, refine) ==
    IF offline_raises(lead) THEN [raised |-> TRUE, text |-> <<>>]
    ELSE IF refine.kind = "no_client"
    THEN [raised |-> FALSE, text |-> StripText(offline(lead, today))]
    ELSE IF refine.kind = "raises" THEN [raised |-> TRUE, text |-> <<>>]
    ELSE [raised |-> FALSE, text |-> StripText(refine.content)]

analyze_lead(lead, today, refine) ==
    IF offline_raises(lead) THEN [raised |-> TRUE, text |-> <<>>]
    ELSE LET doc == StripText(offline(lead, today))
             txt == IF refine.kind = "content" THEN StripText(refine.content)
                    ELSE <<>>
         IN  IF refine.kind = "content" /\ txt # <<>>
             THEN [raised |-> FALSE, text |-> txt]
             ELSE [raised |-> FALSE, text |-> doc]

----------------------------------------------------------------------------
(* app.py: the analysis shown with a lead *)

\* lead.name: AttributeError when the object has no such attribute
attr(lead, name) == IF lead[name] = Absent THEN Raised ELSE lead[name]

\* str(v) inside an f-string
Format(v) == IF IsStr(v) THEN v.s ELSE <<v.t>>

_fallback_analysis(lead) ==
    LET company == attr(lead, "company")
        contact_name == attr(lead, "contact_name")
        name == IF Truthy(company) THEN company
                ELSE IF Truthy(contact_name) THEN contact_name
                ELSE Str(<<"t", "h", "i", "s", " ", "l", "e", "a", "d">>)
    IN  IF company = Raised \/ (~Truthy(company) /\ contact_name = Raised)
        THEN [raised |-> TRUE, text |-> <<>>]
        ELSE [raised |-> FALSE,
              text |-> <<Line(<<"Playbook preview for ", ":">>,
                              <<Format(name)>>),
                         Fixed("- Channel: ..."), Fixed("- Cadence: ..."),
                         Fixed("- Talking points: ..."), Fixed("- CTA: ...")>>]

\* get_analysis_for; _ai_analyze is None when the import of the module failed
get_analysis_for(lead, today, refine, _ai_analyze) ==
    IF _ai_analyze /\ ~analyze_lead(lead, today, refine).raised
    THEN analyze_lead(lead, today, refine)
    ELSE LET fb == _fallback_analysis(lead)
         IN  IF fb.raised \/ ~_ai_analyze THEN fb
             ELSE [raised |-> FALSE,
                   text |-> fb.text
                            \o <<BlankLine,
                                 Fixed("(Note: AI module error was handled.)")>>]


----------------------------------------------------------------------------
(* The leads and the answers of the refinement call that the playbook is *)
(* checked on *)

\* The states of an attribute that holds no value: no such attribute, None,
\* the empty string, a blank string
FieldStates == {Absent, None, Str(<<>>), Str(<<" ">>)}

\* The date attributes hold a date or nothing: no empty or blank string
StateOf(f, st) ==
    IF f \in TextAttrs \/ st = Absent THEN st ELSE None

BlankSnapshot(st) == [f \in Attrs |-> StateOf(f, st)]

FullSnapshot ==
    [company |-> Str(<<"A", "c", "m", "e">>), contact_name |-> Str(<<" ", "A", "l", " ">>),
     contact_email |-> Str(<<"a", "@", "b", ".", "c">>), phone |-> t1,
     industry |-> Str(<<"C", "o", "l", "d", " ", "F", "o", "o", "d">>), fleet_size |-> t2,
     notes |-> Str(<<"R", "u", "n", "s", " ", "2", "4", "/", "7", " ", "o", "n", " ", "a", " ", "r", "a", "m", "p", "\n", "C", "a", "l", "l", " ", "b", "a", "c", "k">>),
     rep |-> Str(<<"R">>), source |-> Str(<<"w", "e", "b">>), city |-> Str(<<"G", "a", "r", "y">>),
     address |-> Str(<<"1", " ", "M", "a", "i", "n">>), created_at |-> PyDatetime(3, 9),
     lead_date |-> PyDate(2)]

\* Leads without a value in any attribute
EmptySnapshots ==
    {[BlankSnapshot(st) EXCEPT ![f] = StateOf(f, other)] :
        f \in Attrs, st \in FieldStates, other \in FieldStates}

\* Leads with one attribute empty, and with one attribute only
MixedSnapshots ==
    {[FullSnapshot EXCEPT ![f] = StateOf(f, st)] :
        f \in Attrs, st \in FieldStates}
    \cup {[BlankSnapshot(st) EXCEPT ![f] = FullSnapshot[f]] :
             f \in Attrs, st \in FieldStates}

\* Objects that are no Lead row: a number of trucks kept as a bool, a date
\* kept as text
Malformed ==
    {[FullSnapshot EXCEPT !.fleet_size = PyBool],
     [BlankSnapshot(None) EXCEPT !.lead_date = Str(sIso1)]}

\* The rows of the Lead table: every attribute exists
IsRow(lead) == \A f \in Attrs : lead[f] # Absent

Snapshots == EmptySnapshots \cup MixedSnapshots \cup Malformed

\* new_text_of(parts, n): the texts made of at most n of the parts
RECURSIVE TextsOf(_, _)
TextsOf(parts, n) ==
    IF n = 0 THEN {<<>>}
    ELSE {<<>>} \cup {p \o t : p \in parts, t \in TextsOf(parts, n - 1)}

NoteParts ==
    {<<" ", "6", " ", "h", "o", "u", "r", "s">>,
     <<" ", "7", " ", "h", "o", "u", "r">>,
     <<" ", "8", "h", "r", "s">>,
     <<" ", "1", "1", " ", "h", "r">>,
     <<" ", "1", "3", " ", "H", "O", "U", "R", "S">>,
     <<" ", "0", " ", "h", "o", "u", "r", "s">>,
     <<"0", "8", " ", "h", "o", "u", "r", "s">>,
     <<" ", "1">>,
     <<" ", "2", "4", "/", "7">>,
     <<" ", "2", " ", "s", "h", "i", "f", "t">>,
     <<" ", "D", "o", "u", "b", "l", "e", " ", "S", "h", "i", "f", "t">>,
     <<" ", "3", " ", "h", "o", "u", "r", "s", "x">>}

IndustryParts ==
    {<<"F", "o", "o", "d">>,
     <<" ", "w", "a", "r", "e", "h", "o", "u", "s", "e">>,
     <<" ", "M", "A", "N", "U", "F", "A", "C", "T", "U", "R", "I", "N", "G">>,
     <<" ", "l", "u", "m", "b", "e", "r", " ", "y", "a", "r", "d">>,
     <<" ", "f", "r", "e", "e", "z", "e", "r">>,
     <<" ", "b", "a", "n", "k">>,
     <<" ">>}

NotesInputs == TextsOf(NoteParts, MaxParts)

IndustryInputs == TextsOf(IndustryParts, MaxParts)

\* The days a lead was created on: up to today (day MaxDay) and after it
Days == 1..(MaxDay + 2)

\* created_at values: none, a date, the last hour of a day
AgedSnapshots ==
    {[FullSnapshot EXCEPT !.created_at = c] :
        c \in {Absent, None} \cup {PyDate(d) : d \in Days}
              \cup {PyDatetime(d, 23) : d \in Days}}

\* A rewrite that keeps the ten headings, and answers that do not
RewrittenDoc ==
    <<BlankLine, Fixed("Summary"), Fixed("A lead."), Fixed("Challenges"),
      Fixed("What Works"), Fixed("Talk Tracks"), Fixed("Cadence"),
      Fixed("Next Best Action"), Fixed("Email Subject"),
      Fixed("First-Touch Email"), Fixed("Call Opener"),
      Fixed("Qualification Checklist"), Fixed("Ask."), Fixed(" ")>>

Refinements ==
    {Refine("no_client", <<>>), Refine("raises", <<>>),
     Refine("content", <<>>), Refine("content", <<Fixed(" "), BlankLine>>),
     Refine("content", <<Fixed("Sorry, I cannot help with that.")>>),
     Refine("content", RewrittenDoc)}

----------------------------------------------------------------------------
(* The requests for a playbook; utcnow is the day datetime.utcnow() gives *)

\* Notes that set the environment flags and the usage in every combination:
\* a word per flag, then the words of a usage
EnvWords == <<<<" ", "c", "o", "l", "d">>, <<" ", "d", "u", "s", "t">>, <<" ", "r", "a", "m", "p">>, <<" ", "y", "a", "r", "d">>>>

UsageWords == {<<>>, <<" ", "2", "4", "/", "7">>, <<" ", "2", " ", "s", "h", "i", "f", "t">>, <<" ", "1", "3", " ", "h", "o", "u", "r", "s">>, <<" ", "9", " ", "h", "o", "u", "r", "s">>, <<" ", "3", " ", "h", "o", "u", "r", "s">>}

RECURSIVE EnvNotes(_)
EnvNotes(n) ==
    IF n = 0 THEN {<<>>}
    ELSE {t \o w : t \in EnvNotes(n - 1), w \in {<<>>, EnvWords[n]}}

GuidanceNotes == {e \o u : e \in EnvNotes(Len(EnvWords)), u \in UsageWords}

GuidanceIndustries == {<<>>, <<"L", "u", "m", "b", "e", "r">>}

NoRequest == [op |-> "none"]

AnalyzeLead ==
    /\ last = NoRequest
    /\ \E lead \in Snapshots \cup AgedSnapshots, refine \in Refinements :
          LET r == analyze_lead(lead, utcnow, refine)
          IN  last' = [op |-> "analyze_lead", lead |-> lead,
                       refine |-> refine, raised |-> r.raised,
                       text |-> r.text]
    /\ UNCHANGED <<leads, prev, utcnow, runs>>

GetAnalysis ==
    /\ last = NoRequest
    /\ \E lead \in {l \in Snapshots : IsRow(l)},
          refine \in {r \in Refinements : r.content = <<>>},
          _ai_analyze \in BOOLEAN :
          LET r == get_analysis_for(lead, utcnow, refine, _ai_analyze)
          IN  last' = [op |-> "get_analysis_for", lead |-> lead,
                       refine |-> refine, _ai_analyze |-> _ai_analyze,
                       raised |-> r.raised, text |-> r.text]
    /\ UNCHANGED <<leads, prev, utcnow, runs>>

SimplifyUsage ==
    /\ last = NoRequest
    /\ \E notes \in NotesInputs, st \in {Absent, None} :
          LET lead == [BlankSnapshot(st) EXCEPT !.notes = Str(notes)]
          IN  last' = [op |-> "_simplify_usage", lead |-> lead,
                       usage |-> _simplify_usage(lead)]
    /\ UNCHANGED <<leads, prev, utcnow, runs>>

QuoteGuidance ==
    /\ last = NoRequest
    /\ \E notes \in GuidanceNotes, industry \in GuidanceIndustries :
          LET lead == [BlankSnapshot(None) EXCEPT !.notes = Str(notes),
                                                 !.industry = Str(industry)]
          IN  last' = [op |-> "_quote_guidance", lead |-> lead,
                       env |-> _env_from_lead(lead),
                       qg |-> _quote_guidance(lead)]
    /\ UNCHANGED <<leads, prev, utcnow, runs>>

IndustryProfile ==
    /\ last = NoRequest
    /\ \E industry \in IndustryInputs :
          last' = [op |-> "_industry_profile", industry |-> industry,
                   profile |-> _industry_profile(_v(Str(industry)).s)]
    /\ UNCHANGED <<leads, prev, utcnow, runs>>

InitPlaybook ==
    /\ leads = <<>>
    /\ last = NoRequest
    /\ prev = NoRequest
    /\ utcnow = MaxDay
    /\ runs = 0

NextPlaybook ==
    \/ AnalyzeLead \/ GetAnalysis \/ SimplifyUsage \/ IndustryProfile
    \/ QuoteGuidance

SpecPlaybook == InitPlaybook /\ [][NextPlaybook]_vars

----------------------------------------------------------------------------
(* Properties of the import runs (SpecImport) *)

IsImport(l) == l.op \in {"main", "import_leads_view"}

\* The file passes every file-level check of the importers
FileOk(f) ==
    f.exists /\ f.ext \in ALLOWED_EXTENSIONS /\ f.readable /\ ~df_empty(f.df)

\* The run of l went through the rows of its file
RanRows(l) == IsImport(l) /\ FileOk(l.file)

RowsOfRun(l) == l.file.df.rows

\* Column mapping as specified: the first alias column that is present and
\* holds a non-empty value
spec_pick(row, names) ==
    LET good == {i \in 1..Len(names) :
                    names[i] \in DOMAIN row /\ ~is_empty(row[names[i]])}
    IN  IF good = {} THEN None ELSE Str(Strip(row[names[Min(good)]].s))

spec_kwargs(row) == [f \in TextFields |-> spec_pick(row, Aliases(f))]

Count(l, act) == Cardinality({i \in 1..Len(l.log) : l.log[i].act = act})

\* The three-row dataset of C1, read against the store the run started on
C1_Scenario ==
    /\ last.op = "main" /\ last.update /\ FileOk(last.file)
    /\ Len(RowsOfRun(last)) = 3
    /\ LET store == last.log[1].before
           k1 == spec_kwargs(RowsOfRun(last)[1])
           k2 == spec_kwargs(RowsOfRun(last)[2])
           k3 == spec_kwargs(RowsOfRun(last)[3])
       IN  /\ k1.company # None
           /\ \A j \in 1..Len(store) : store[j].company # k1.company
           /\ k2.company # None
           /\ \E j \in 1..Len(store) :
                 /\ store[j].company = k2.company
                 /\ \A f \in TextFields : k2[f] # None => store[j][f] = k2[f]
           /\ k3.company # None /\ k3.contact_email # None
           /\ \E j \in 1..Len(store) :
                 /\ store[j].company = k3.company
                 /\ store[j].contact_email # k3.contact_email
           /\ \A j \in 1..Len(store) : store[j].contact_email # k3.contact_email

\* C1: with update mode on, the dataset (new company; exact match with
\* identical values; same company with a new email) is counted
\* (inserted, updated, skipped) = (1, 1, 1), and every run counts each row
\* in exactly one of the three counters.
C1_Counts ==
    /\ C1_Scenario =>
          last.inserted = 1 /\ last.updated = 1 /\ last.skipped = 1
    /\ RanRows(last) =>
          last.inserted + last.updated + last.skipped = Len(RowsOfRun(last))

\* Every row of the first run mapped a company or an email
Keyed(l) ==
    \A i \in 1..Len(l.log) :
        l.log[i].kw.company # None \/ l.log[i].kw.contact_email # None

\* main ran the same readable file twice, the second time without --update
Rerun ==
    /\ prev.op = "main" /\ last.op = "main" /\ ~last.update
    /\ FileOk(last.file) /\ prev.file = last.file

SecondRunSkipsAll ==
    /\ last.inserted = 0
    /\ last.skipped = Len(RowsOfRun(last))
    /\ \A i \in 1..Len(last.log) : last.log[i].after = prev.log[Len(prev.log)].after
    /\ leads = prev.log[Len(prev.log)].after

\* C2 as stated: for every dataset the second run with update mode off
\* inserts nothing, skips every row and leaves the store unchanged.
C2_AnyDataset == Rerun => SecondRunSkipsAll

\* C2 amended: the same, for the datasets whose every row maps a non-empty
\* company or email.
C2_Idempotent == (Rerun /\ Keyed(prev)) => SecondRunSkipsAll

C2_Witness ==
    /\ Rerun /\ Keyed(prev)
    /\ Len(RowsOfRun(last)) >= 2
    /\ prev.inserted >= 1
    /\ last.skipped = Len(RowsOfRun(last))

\* The leads of store ls that the claim lets a row with kwargs kw match
Matching(ls, kw) ==
    {j \in 1..Len(ls) :
        /\ kw.company # None => ls[j].company = kw.company
        /\ kw.contact_email # None => ls[j].contact_email = kw.contact_email}

Overwritten(l, kw) == {f \in KwFields : kw[f] # None /\ kw[f] # l[f]}

\* C4: with update mode on a matched row overwrites exactly the fields whose
\* mapped value is non-empty and differs; nothing else changes, and the row
\* counts as updated iff a field was overwritten, as skipped otherwise.
C4_UpdateFrame ==
    (IsImport(last) /\ last.update) =>
        /\ \A i \in 1..Len(last.log) :
              LET e == last.log[i]
                  l == e.before[e.existing]
                  ow == Overwritten(l, e.kw)
              IN  e.existing # 0 =>
                     /\ Len(e.after) = Len(e.before)
                     /\ \A j \in 1..Len(e.before) :
                           j # e.existing => e.after[j] = e.before[j]
                     /\ \A f \in DOMAIN l :
                           e.after[e.existing][f] =
                               IF f \in ow THEN e.kw[f] ELSE l[f]
                     /\ e.act = IF ow # {} THEN "update" ELSE "skip"
        /\ last.updated = Count(last, "update")
        /\ last.skipped = Count(last, "skip")

\* An update that overwrote one field and kept another that the row left
\* empty
C4_Witness ==
    /\ last.op = "main" /\ last.update
    /\ \E i \in 1..Len(last.log) :
          LET e == last.log[i]
          IN  /\ e.act = "update"
              /\ \E f \in TextFields :
                    e.kw[f] = None /\ e.before[e.existing][f] # None
              /\ \E f \in TextFields :
                    f \in Overwritten(e.before[e.existing], e.kw)

\* C5: with update mode off a matched row is only counted as skipped; no
\* lead changes and none is inserted for it.
C5_SkipOnly ==
    (last.op = "main" /\ ~last.update) =>
        /\ \A i \in 1..Len(last.log) :
              last.log[i].existing # 0 =>
                 /\ last.log[i].act = "skip"
                 /\ last.log[i].after = last.log[i].before
        /\ last.updated = 0
        /\ last.skipped = Cardinality({i \in 1..Len(last.log) :
                                          last.log[i].existing # 0})

\* A matched row that carried a value differing from the stored one
C5_Witness ==
    /\ last.op = "main" /\ ~last.update
    /\ \E i \in 1..Len(last.log) :
          /\ last.log[i].existing # 0
          /\ Overwritten(last.log[i].before[last.log[i].existing],
                         last.log[i].kw) # {}

\* C6: each text field is the first alias column that is present and holds
\* a non-empty value; an empty earlier alias does not hide a later one.
C6_FirstNonEmpty ==
    (last.op = "main" /\ FileOk(last.file)) =>
        \A i \in 1..Len(last.log) :
            \A f \in TextFields :
                last.log[i].kw[f] = spec_pick(RowsOfRun(last)[i], Aliases(f))

\* C7: a file-level failure is reported once and nothing is written.
C7_FileFailure ==
    [][(IsImport(last') /\ ~FileOk(last'.file)) =>
          /\ leads' = leads
          /\ Len(last'.msgs) = 1
          /\ last'.log = <<>>
          /\ last'.inserted = 0 /\ last'.updated = 0 /\ last'.skipped = 0]_vars

\* A store with a lead, after an import of a file with rows and a wrong
\* extension
C7_Witness ==
    /\ IsImport(last) /\ ~FileOk(last.file)
    /\ last.file.exists /\ Len(last.file.df.rows) > 0
    /\ Len(leads) > 0

CleanDate(v) == v.t \in {"None", "date"}

\* C8: parse_date_safe gives a date or None for every raw value, and a row
\* with an unparseable date is processed like any other, with lead_date
\* absent.
C8_DateCoercion ==
    /\ \A j \in 1..Len(leads) : CleanDate(leads[j].lead_date)
    /\ (last.op = "main" /\ FileOk(last.file)) =>
          /\ Len(last.log) = Len(RowsOfRun(last))
          /\ \A i \in 1..Len(last.log) :
                LET row == RowsOfRun(last)[i]
                IN  /\ last.log[i].act \in {"insert", "update", "skip"}
                    /\ CleanDate(last.log[i].kw.lead_date)
                    /\ "date" \in DOMAIN row =>
                          /\ CleanDate(parse_date_safe(row["date"]))
                          /\ CleanDate(row_to_kwargs(row).lead_date)
                          /\ row["date"] = Str(sBad) =>
                                last.log[i].kw.lead_date = None

\* A run that matched a row with the unparseable date and a row with a
\* parseable one
C8_Witness ==
    /\ last.op = "main" /\ FileOk(last.file)
    /\ "date" \in last.file.df.cols
    /\ \E i \in 1..Len(last.log) :
          /\ RowsOfRun(last)[i]["date"] = Str(sBad)
          /\ last.log[i].existing # 0
    /\ \E i \in 1..Len(last.log) :
          /\ RowsOfRun(last)[i]["date"] = Str(sIso1)
          /\ last.log[i].kw.lead_date = PyDate(2)

----------------------------------------------------------------------------
(* Properties of the handlers (Spec) *)

StageValues == {None} \cup {Str(STAGES[i]) : i \in 1..Len(STAGES)}

QualityValues == {None} \cup {Str(QUALITIES[i]) : i \in 1..Len(QUALITIES)}

\* C9: every stored lead has stage among the six stages or absent and
\* quality among good, warm, bad or absent.
C9_Enums ==
    \A j \in 1..Len(leads) :
        leads[j].stage \in StageValues /\ leads[j].quality \in QualityValues

\* A lead that was added or imported, then classified with values sent in
\* another case
C9_Witness ==
    \E j \in 1..Len(leads) :
        /\ leads[j].stage = Str(sWon)
        /\ leads[j].quality = Str(sBad2)
        /\ leads[j].company # None

\* The value names a stage (in any case; a missing or empty one means new)
NamesStage(v) == ~Truthy(v) \/ (IsStr(v) /\ InSeq(Lower(v.s), STAGES))

NamesQuality(v) == IsStr(v) /\ InSeq(Lower(v.s), QUALITIES)

Done(l) == l.status \in {200, 302}

\* C11: no operation removes a lead or changes a lead id, and mark-dead
\* changes nothing but the stage of its lead, which becomes lost.
C11_NeverDeleted ==
    [][/\ Len(leads') >= Len(leads)
       /\ \A j \in 1..Len(leads) : leads'[j].id = leads[j].id
       /\ \A j \in 1..Len(leads') : leads'[j].id = j
       /\ last'.op = "mark_dead" =>
             leads' = IF Exists(leads, last'.lead_id)
                      THEN [leads EXCEPT ![last'.lead_id].stage = Str(sLost)]
                      ELSE leads]_vars

\* A classified lead that was marked dead
C11_Witness ==
    /\ last.op = "mark_dead" /\ Done(last)
    /\ leads[last.lead_id].stage = Str(sLost)
    /\ leads[last.lead_id].quality # None
    /\ leads[last.lead_id].company # None

\* C12: restore sets the stage of its lead to new and changes nothing else,
\* whatever the stage was; restored right after mark-dead, the lead is on the
\* kanban board and not in the dead view.
C12_Restore ==
    [][/\ last'.op = "restore_dead" =>
             /\ leads' = IF Exists(leads, last'.lead_id)
                         THEN [leads EXCEPT ![last'.lead_id].stage = Str(sNew)]
                         ELSE leads
             /\ Done(last') <=> Exists(leads, last'.lead_id)
       /\ (/\ last.op = "mark_dead" /\ Done(last)
           /\ last'.op = "restore_dead" /\ last'.lead_id = last.lead_id) =>
             /\ in_dead_view(leads[last.lead_id])
             /\ ~on_board(leads[last.lead_id])
             /\ on_board(leads'[last.lead_id])
             /\ ~in_dead_view(leads'[last.lead_id])]_vars

\* A classified lead back on the board after a restore
C12_Witness ==
    /\ last.op = "restore_dead" /\ Done(last)
    /\ leads[last.lead_id].stage = Str(sNew)
    /\ on_board(leads[last.lead_id])
    /\ leads[last.lead_id].quality # None

----------------------------------------------------------------------------
(* Properties of the playbook (SpecPlaybook) *)

TenHeadings ==
    <<"Summary", "Challenges", "What Works", "Talk Tracks", "Cadence",
      "Next Best Action", "Email Subject", "First-Touch Email", "Call Opener",
      "Qualification Checklist">>

\* The line is one of the ten headings, alone on its line
IsHeading(l) == l.v = <<>> /\ Len(l.k) = 1 /\ InSeq(l.k[1], TenHeadings)

\* The headings of a text, in the order they appear
HeadingNames(text) ==
    LET hs == SelectSeq(text, IsHeading)
    IN  [i \in 1..Len(hs) |-> hs[i].k[1]]

RECURSIVE IsSubseq(_, _)
IsSubseq(a, b) ==
    IF a = <<>> THEN TRUE
    ELSE IF b = <<>> THEN FALSE
    ELSE IF Head(a) = Head(b) THEN IsSubseq(Tail(a), Tail(b))
    ELSE IsSubseq(a, Tail(b))

\* The lead is a snapshot of a Lead: text attributes hold a str or nothing,
\* lead_date a date or nothing
WellTyped(lead) ==
    /\ \A f \in TextAttrs : lead[f].t \in {"absent", "None", "str"}
    /\ lead.lead_date.t \in {"absent", "None", "date", "datetime"}

\* The line that follows the heading in the text
LineAfter(text, heading) ==
    text[(CHOOSE i \in 1..Len(text) : text[i] = Fixed(heading)) + 1]

\* C13: for every lead and every outcome of the refinement call, the text
\* analyze_lead returns contains the ten section headings in their order.
C13_TenHeadings ==
    (last.op = "analyze_lead" /\ WellTyped(last.lead)) =>
        /\ ~last.raised
        /\ IsSubseq(TenHeadings, HeadingNames(last.text))

\* The refinement call failed or gave no text
RefineFailed(r) ==
    \/ r.kind = "raises"
    \/ r.kind = "content" /\ StripText(r.content) = <<>>

\* C14: with a client configured, a refinement call that raises or returns
\* an empty text leaves exactly the offline document, and nothing is raised.
C14_Fallback ==
    (/\ last.op = "analyze_lead" /\ WellTyped(last.lead)
     /\ RefineFailed(last.refine)) =>
        /\ ~last.raised
        /\ last.text =
              analyze_lead(last.lead, utcnow, Refine("no_client", <<>>)).text
        /\ last.text # <<>>

\* The call raised for a lead with values, and the document came back
C14_Witness ==
    /\ last.op = "analyze_lead"
    /\ last.refine.kind = "raises"
    /\ last.lead.company = FullSnapshot.company
    /\ last.lead.notes = FullSnapshot.notes
    /\ ~last.raised
    /\ Len(last.text) > Len(TenHeadings)

AllEmpty(lead) == \A f \in Attrs : lead[f] \in FieldStates

\* C15: without refinement, a lead with every field empty or missing gets
\* exactly the ten headings in order, each followed by content, with the
\* company and the daily usage Unknown and the generic profile.
C15_EmptyLead ==
    (/\ last.op = "analyze_lead" /\ last.refine.kind = "no_client"
     /\ AllEmpty(last.lead)) =>
        /\ ~last.raised
        /\ HeadingNames(last.text) = TenHeadings
        /\ \A i \in 1..Len(last.text) :
              IsHeading(last.text[i]) =>
                  i < Len(last.text) /\ ~IsBlank(last.text[i + 1])
        /\ LineAfter(last.text, "Summary") =
              Line(<<"Company: ">>, <<<<"U", "n", "k", "n", "o", "w", "n">>>>)
        /\ InSeq(Line(<<"Daily Usage: ", "Unknown">>, <<>>), last.text)
        /\ LineAfter(last.text, "Challenges") = Line(generic.pains, <<>>)
        /\ LineAfter(last.text, "Talk Tracks") = Line(generic.tracks, <<>>)

\* A lead whose attributes are missing, but for a blank one
C15_Witness ==
    /\ last.op = "analyze_lead" /\ last.refine.kind = "no_client"
    /\ AllEmpty(last.lead)
    /\ last.lead.company = Absent /\ last.lead.notes = Str(<<" ">>)
    /\ HeadingNames(last.text) = TenHeadings

\* The text is the fallback preview
IsFallback(text) ==
    /\ text # <<>>
    /\ text[1].k = <<"Playbook preview for ", ":">>

NotesOf(l) == Lower(Strip(l.lead.notes.s))

\* The digit runs of s: where they start, where they end, their value
RunStarts(s) ==
    {p \in 1..Len(s) : IsDigit(s[p]) /\ (p = 1 \/ ~IsDigit(s[p - 1]))}

RECURSIVE RunEnd(_, _)
RunEnd(s, p) ==
    IF p < Len(s) /\ IsDigit(s[p + 1]) THEN RunEnd(s, p + 1) ELSE p

RECURSIVE RunValue(_, _, _)
RunValue(s, p, e) ==
    IF e < p THEN 0 ELSE 10 * RunValue(s, p, e - 1) + DigitVal(s[e])

\* The numbers N of the "N hours" mentions of s
Mentions(s) ==
    {RunValue(s, p, RunEnd(s, p)) :
        p \in {q \in RunStarts(s) : UnitEnd(s, RunEnd(s, q) + 1) # 0}}

MaxMention(s) ==
    IF Mentions(s) = {} THEN 0
    ELSE CHOOSE n \in Mentions(s) : \A m \in Mentions(s) : m <= n

\* C17: without a shift keyword the usage is decided by the largest N of the
\* "N hours" mentions: Heavy from 12, Medium for 8..11, Light to medium for
\* 1..7, Unknown for none or 0.
C17_HoursThresholds ==
    (/\ last.op = "_simplify_usage"
     /\ ~AnyIn(NotesOf(last), MultiShift) /\ ~AnyIn(NotesOf(last), TwoShift)) =>
        LET n == MaxMention(NotesOf(last))
        IN  last.usage =
               IF n >= 12 THEN "Heavy (long daily runtime)"
               ELSE IF n >= 8 THEN "Medium (about one shift)"
               ELSE IF n >= 1 THEN "Light to medium (a few hours daily)"
               ELSE "Unknown"

\* C18: a multi-shift keyword gives Heavy whatever else the notes hold;
\* otherwise a two-shift keyword gives Medium to heavy whatever the hour
\* counts; the hour thresholds decide only when no keyword matched.
C18_KeywordPriority ==
    last.op = "_simplify_usage" =>
        IF AnyIn(NotesOf(last), MultiShift)
        THEN last.usage = "Heavy (multiple shifts / long hours)"
        ELSE IF AnyIn(NotesOf(last), TwoShift)
        THEN last.usage = "Medium to heavy (often two shifts)"
        ELSE last.usage \in {"Heavy (long daily runtime)",
                             "Medium (about one shift)",
                             "Light to medium (a few hours daily)", "Unknown"}

\* Notes with a two-shift keyword and 13 hours
C18_Witness ==
    /\ last.op = "_simplify_usage"
    /\ ~AnyIn(NotesOf(last), MultiShift)
    /\ AnyIn(NotesOf(last), TwoShift)
    /\ 13 \in Mentions(NotesOf(last))
    /\ last.usage = "Medium to heavy (often two shifts)"

\* The profiles whose keywords the industry contains
Matched(industry) ==
    {n \in 1..Len(profiles) : AnyIn(Lower(Strip(industry)), profiles[n].keys)}

\* C19: the profile is the earliest declared one with a keyword in the
\* industry, the generic one when there is none, and every profile has
\* three pains, three proof and three tracks sentences.
C19_FirstMatch ==
    last.op = "_industry_profile" =>
        LET m == Matched(last.industry)
            p == last.profile
        IN  /\ IF m = {} THEN p = generic
               ELSE /\ p.pains = profiles[Min(m)].pains
                    /\ p.proof = profiles[Min(m)].proof
                    /\ p.tracks = profiles[Min(m)].tracks
            /\ Len(p.pains) = 3 /\ Len(p.proof) = 3 /\ Len(p.tracks) = 3

\* An industry with keywords of the second and the third profile
C19_Witness ==
    /\ last.op = "_industry_profile"
    /\ Matched(last.industry) = {2, 3}
    /\ last.profile.pains = profiles[2].pains

\* The creation date of the lead, None when it has none
CreatedDate(lead) ==
    IF lead.created_at.t \in {"date", "datetime"} THEN lead.created_at.d
    ELSE 0

\* C20: the next best action is decided by d, the days from the creation
\* date to today: the intro email for d = 0, no creation date or d < 0, the
\* Day-3 touch for 1..2, the one-pager for 3..6, the final check-in from 7.
C20_NextBestAction ==
    (/\ last.op = "analyze_lead" /\ last.refine.kind = "no_client"
     /\ WellTyped(last.lead)) =>
        LET d == IF CreatedDate(last.lead) = 0 THEN 0
                 ELSE utcnow - CreatedDate(last.lead)
        IN  LineAfter(last.text, "Next Best Action") =
               Fixed(IF d <= 0 THEN "Send the introductory email today..."
                     ELSE IF d \in 1..2 THEN "Make the Day-3 touch..."
                     ELSE IF d \in 3..6 THEN "Share a relevant one-pager..."
                     ELSE "Send a brief, respectful final check-in and propose a site walk...")

\* A lead created at the end of a day, seven days ago
C20_Witness ==
    /\ last.op = "analyze_lead" /\ last.refine.kind = "no_client"
    /\ last.lead.created_at.t = "datetime"
    /\ utcnow - last.lead.created_at.d = 7
    /\ LineAfter(last.text, "Next Best Action") =
          Fixed("Send a brief, respectful final check-in and propose a site walk...")

----------------------------------------------------------------------------
(* Properties of the equipment recommendation (SpecPlaybook) *)

\* The usage level that a usage phrase stands for
UsageLevel(usage) ==
    IF usage \in {"Heavy (multiple shifts / long hours)",
                  "Heavy (long daily runtime)"} THEN "Heavy"
    ELSE IF usage \in {"Medium to heavy (often two shifts)",
                       "Medium (about one shift)"} THEN "Medium"
    ELSE IF usage = "Light to medium (a few hours daily)" THEN "Light"
    ELSE "Unknown"

\* The power, charging and service texts of each usage level
ByLevel ==
    [Heavy |-> [power |-> "80V or Li-ion sized for long hours...",
                charging |-> "Opportunity or fast chargers...",
                service |-> "Tight PM cadence..."],
     Medium |-> [power |-> "48V (or 36/48V)...",
                 charging |-> "Standard chargers...",
                 service |-> "Regular PM schedule..."],
     Light |-> [power |-> "Standard capacity...",
                charging |-> "Overnight charging...",
                service |-> "Quarterly PM..."],
     Unknown |-> [power |-> "Choose between IC and Li-ion...",
                  charging |-> "Pick overnight vs opportunity...",
                  service |-> "Baseline PM plan..."]]

BaseTruck == {"Pneumatic tires...", "Cold-store package...", "Cushion tires..."}

\* C21: the truck text is a base text followed by the grade sentence when
\* ramps is set and the filtration sentence when dusty is set; the power text
\* is the base text of the usage level followed by the thermal-management
\* sentence when cold is set; charging and service are those of the usage
\* level, whatever the flags.
C21_Modifiers ==
    last.op = "_quote_guidance" =>
        LET env == last.env
            qg == last.qg
            level == ByLevel[UsageLevel(qg.usage)]
        IN  /\ qg.truck # <<>> /\ qg.truck[1] \in BaseTruck
            /\ Tail(qg.truck) =
                  (IF env.ramps THEN <<" Confirm grades...">> ELSE <<>>)
                  \o (IF env.dusty THEN <<" Add filtration...">> ELSE <<>>)
            /\ qg.power # <<>> /\ qg.power[1] = level.power
            /\ Tail(qg.power) =
                  (IF env.cold THEN <<" Prefer Li-ion...">> ELSE <<>>)
            /\ qg.charging = level.charging
            /\ qg.service = level.service

\* A light usage on a cold, dusty ramp outdoors: all three sentences are added
C21_Witness ==
    /\ last.op = "_quote_guidance"
    /\ last.env.ramps /\ last.env.dusty /\ last.env.cold /\ last.env.outdoor
    /\ UsageLevel(last.qg.usage) = "Light"
    /\ Len(last.qg.truck) = 3 /\ Len(last.qg.power) = 2

----------------------------------------------------------------------------
(* Properties that compare and frame the import runs (SpecImport) *)

\* The counts and the store that a run leaves
Outcome(r) ==
    [leads |-> r.leads, inserted |-> r.last.inserted,
     updated |-> r.last.updated, skipped |-> r.last.skipped]

\* C22: a run of import_leads_view over the rows of a file leaves counts and
\* a store that main --update can leave on the same file and store, and a
\* run of main --update leaves what import_leads_view can leave.
C22_SameReconciler ==
    [][/\ (/\ last'.op = "import_leads_view"
           /\ last'.msgs = <<Msg("Imported", "success")>>)
          => Outcome([leads |-> leads', last |-> last'])
                \in {Outcome(r) : r \in main_results(leads, last'.file, TRUE,
                                                     utcnow)}
       /\ (/\ last'.op = "main" /\ last'.update
           /\ last'.msgs = <<Msg("Imported", "print")>>)
          => Outcome([leads |-> leads', last |-> last'])
                \in {Outcome(r) : r \in import_leads_view_results(
                                           leads, last'.file, utcnow)}]_vars

\* The lead carries a key: a company or an email
HasKey(l) == Truthy(l.company) \/ Truthy(l.contact_email)

NoDuplicateKeys(ls) ==
    \A i, j \in 1..Len(ls) :
        (i # j /\ HasKey(ls[i])) =>
            ~(/\ ls[i].company = ls[j].company
              /\ ls[i].contact_email = ls[j].contact_email)

\* The store that the run recorded in l started on
FirstStore(l) == IF l.log = <<>> THEN leads ELSE l.log[1].before

\* The runs so far started from an empty store
StartedEmpty ==
    \/ runs = 1 /\ IsImport(last) /\ FirstStore(last) = <<>>
    \/ runs = 2 /\ IsImport(prev) /\ FirstStore(prev) = <<>>

\* Rows i < j of a run where i was inserted with a key and j repeats the
\* company and the email of i
Repeats(l, i, j) ==
    /\ i < j
    /\ l.log[i].act = "insert" /\ HasKey(l.log[i].kw)
    /\ l.log[j].kw.company = l.log[i].kw.company
    /\ l.log[j].kw.contact_email = l.log[i].kw.contact_email

\* An update leaves the company and the email of the lead it matched
UpdateKeepsKeys(l) ==
    \A i \in 1..Len(l.log) :
        LET e == l.log[i]
        IN  e.existing # 0 =>
               /\ e.after[e.existing].company = e.before[e.existing].company
               /\ e.after[e.existing].contact_email =
                     e.before[e.existing].contact_email

\* C23 as stated: from an empty store no two leads share company and email
\* (one of them non-empty), a row that repeats an inserted row matches the
\* lead inserted for that row, and an update keeps company and email.
C23_AsStated ==
    StartedEmpty =>
        /\ NoDuplicateKeys(leads)
        /\ \A i, j \in 1..Len(last.log) :
              Repeats(last, i, j) =>
                  last.log[j].existing = Len(last.log[i].before) + 1
        /\ UpdateKeepsKeys(last)

\* C23 amended: no two leads share company and email (one of them
\* non-empty), after every row of every run; a row that repeats an inserted
\* row is not inserted again: it matches a lead equal to it on the keys it
\* maps, which is the lead inserted for the earlier row when it maps both
\* company and email; an update keeps company and email.
C23_NoDuplicates ==
    /\ NoDuplicateKeys(leads)
    /\ IsImport(last) =>
          /\ \A i \in 1..Len(last.log) : NoDuplicateKeys(last.log[i].after)
          /\ \A i, j \in 1..Len(last.log) :
                Repeats(last, i, j) =>
                    /\ last.log[j].existing
                          \in Matching(last.log[j].before, last.log[j].kw)
                    /\ (/\ last.log[j].kw.company # None
                        /\ last.log[j].kw.contact_email # None)
                       => last.log[j].existing = Len(last.log[i].before) + 1
          /\ UpdateKeepsKeys(last)

\* From an empty store: a row was inserted with company and email, a later
\* row repeated both and matched the inserted lead, and two leads of one
\* company are stored
C23_Witness ==
    /\ StartedEmpty /\ last.op = "main"
    /\ \E i, j \in 1..Len(last.log) :
          /\ Repeats(last, i, j)
          /\ last.log[j].kw.contact_email # None
          /\ last.log[j].kw.company # None
          /\ last.log[j].existing = Len(last.log[i].before) + 1
    /\ \E i, j \in 1..Len(leads) :
          i # j /\ HasKey(leads[i]) /\ leads[i].company = leads[j].company

\* C24: a step of an importer keeps the stage, the quality, the id and
\* created_at of every lead that was stored, and the leads it adds have no
\* stage and no quality.
C24_Frame ==
    [][IsImport(last') =>
          /\ Len(leads') >= Len(leads)
          /\ \A i \in 1..Len(leads) :
                /\ leads'[i].stage = leads[i].stage
                /\ leads'[i].quality = leads[i].quality
                /\ leads'[i].id = leads[i].id
                /\ leads'[i].created_at = leads[i].created_at
          /\ \A i \in (Len(leads) + 1)..Len(leads') :
                leads'[i].stage = None /\ leads'[i].quality = None]_vars

\* A run with --update changed a field of a classified lead and inserted a
\* lead beside it, at a later time than the creation of the first
C24_Witness ==
    /\ last.op = "main" /\ last.update /\ runs = 1
    /\ \E i \in 1..Len(last.log) :
          LET e == last.log[i]
          IN  /\ e.act = "update"
              /\ e.before[e.existing].stage # None
              /\ e.before[e.existing].quality # None
              /\ leads[e.existing].stage = e.before[e.existing].stage
    /\ \E i \in 1..Len(last.log) : last.log[i].act = "insert"
    /\ \E i, j \in 1..Len(leads) : leads[i].created_at # leads[j].created_at

----------------------------------------------------------------------------
(* Properties of the board (Spec) *)

\* The lanes that show lead i
LanesOf(i) == {key \in DOMAIN groups(leads) : i \in groups(leads)[key]}

\* The lane that the claim gives a stage, "none" for a stage it does not name
LaneOfStage(stage) ==
    IF stage = None \/ stage = Str(sNew) THEN "no_contact"
    ELSE IF stage = Str(sContacted) THEN "waiting_response"
    ELSE IF stage \in {Str(sQualified), Str(sQuoted), Str(sWon)}
    THEN "in_discussion"
    ELSE "none"

\* C25: a lead whose stage is lost is in the dead-leads view and in no lane;
\* any other lead is in exactly the lane of its stage and not in the dead
\* view; after a kanban update to the drop-target stage of a column the lead
\* is in the lane of that column.
C25_Partition ==
    /\ \A i \in 1..Len(leads) :
          IF leads[i].stage = Str(sLost)
          THEN i \in dead_leads(leads) /\ LanesOf(i) = {}
          ELSE /\ i \notin dead_leads(leads)
               /\ LanesOf(i) = {LaneOfStage(leads[i].stage)}
    /\ (last.op = "api_kanban_update" /\ last.status = 200) =>
          \A c \in 1..Len(columns) :
              (IsStr(last.value) /\ Lower(last.value.s) = columns[c].stage)
                  => last.lead_id \in groups(leads)[columns[c].key]

\* A lead was dropped on the In Discussion column
C25_Witness ==
    /\ last.op = "api_kanban_update" /\ last.status = 200
    /\ last.value = Str(sQualified)
    /\ LanesOf(last.lead_id) = {"in_discussion"}

=============================================================================
